---------------------------- MODULE Spec2Model ----------------------------
(***************************************************************************)
(* goldb: an LSM key-value engine.  The model follows the engine facade    *)
(* (Engine.Get/Set/Delete, NewEngine with its WAL replay), the index       *)
(* manager (read cascade, Flush, CompactionCheck/createLevel, readTable),  *)
(* the AVL memtable, the disk WAL and the value heap.                      *)
(*                                                                         *)
(* Byte strings (keys, values, file contents) are sequences of numbers in  *)
(* 0..255.  Files are modelled by their contents.                          *)
(***************************************************************************)
EXTENDS Integers, Sequences, FiniteSets, TLC

\* ------------------------------------------------------------------ sizes
\* shared.KeySize: width of a padded key on disk.
KeySize == 256
\* shared.UintSize: width of a serialized uint32.
UintSize == 4

\* Configuration used by the model (EngineConfig fields, scaled down).
MemtableSizeThreshold == 2
CompactionThreshold == 1

\* Exploration bounds.
\* MaxOps: number of Engine.Set / Engine.Delete calls made by the clients.
MaxOps == 5
\* MaxCrashes: number of process crashes followed by NewEngine.
MaxCrashes == 1
\* MaxConcOps: number of calls made when two client threads run at once.
MaxConcOps == 4

\* ------------------------------------------------------------- byte tools
Zeros(n) == [i \in 1..n |-> 0]

Min(a, b) == IF a < b THEN a ELSE b

\* Go's string comparison a < b: lexicographic on bytes.
StrLess(a, b) ==
  LET diff == {i \in 1..Min(Len(a), Len(b)) : a[i] # b[i]} IN
  IF diff = {} THEN Len(a) < Len(b)
  ELSE LET first == CHOOSE i \in diff : \A j \in diff : i <= j
       IN a[first] < b[first]

\* shared.KeyToBytes as it would be without the padding.
KeyToBytesUnpadded(key) == key

\* shared.KeyToBytes: truncate to KeySize or pad with null bytes.
KeyToBytes(key) ==
  IF Len(key) > KeySize THEN SubSeq(key, 1, KeySize)
  ELSE key \o Zeros(KeySize - Len(key))

\* shared.TrimPaddedKey: strings.TrimRight(key, "\x00").
TrimPaddedKey(key) ==
  IF \A i \in 1..Len(key) : key[i] = 0 THEN <<>>
  ELSE SubSeq(key, 1, CHOOSE m \in 1..Len(key) :
                        key[m] # 0 /\ \A i \in (m + 1)..Len(key) : key[i] = 0)

\* binary.LittleEndian.Uint32 of a 4-byte buffer.
Uint32LE(b) == b[1] + 256 * b[2] + 65536 * b[3] + 16777216 * b[4]

\* uint32(x) conversion of a non-negative int.  Every length, offset and
\* serial of the model stays below 2^31, where the conversion changes nothing.
U32(x) == x

\* ------------------------------------------------------------ positions
\* Position{Offset, Size}; the zero Position is the tombstone marker.
Position(off, size) == [Offset |-> off, Size |-> size]
ZeroPosition == Position(0, 0)
KVPair(key, pos) == [Key |-> key, Value |-> pos]

\* --------------------------------------------------------- AVL memtable
\* treeNode; NilNode stands for a nil *treeNode.
NilNode == [nil |-> TRUE]
TreeNode(key, value, left, right, h) ==
  [nil |-> FALSE, key |-> key, value |-> value, left |-> left, right |-> right,
   height |-> h]

Max(a, b) == IF a > b THEN a ELSE b

height(node) == IF node.nil THEN 0 ELSE node.height

balanceFactor(node) ==
  IF node.nil THEN 0 ELSE height(node.left) - height(node.right)

rightRotate(y) ==
  LET x  == y.left
      T2 == x.right
      y2 == TreeNode(y.key, y.value, T2, y.right,
                     Max(height(T2), height(y.right)) + 1)
  IN TreeNode(x.key, x.value, x.left, y2, Max(height(x.left), height(y2)) + 1)

leftRotate(x) ==
  LET y  == x.right
      T2 == y.left
      x2 == TreeNode(x.key, x.value, x.left, T2,
                     Max(height(x.left), height(T2)) + 1)
  IN TreeNode(y.key, y.value, x2, y.right, Max(height(x2), height(y.right)) + 1)

balance(node, key) ==
  LET bal == balanceFactor(node) IN
  IF bal > 1 /\ StrLess(key, node.left.key) THEN rightRotate(node)
  ELSE IF bal < -1 /\ StrLess(node.right.key, key) THEN leftRotate(node)
  ELSE IF bal > 1 /\ StrLess(node.left.key, key)
    THEN rightRotate([node EXCEPT !.left = leftRotate(node.left)])
  ELSE IF bal < -1 /\ StrLess(key, node.right.key)
    THEN leftRotate([node EXCEPT !.right = rightRotate(node.right)])
  ELSE node

RECURSIVE insert(_, _, _)
insert(node, key, value) ==
  IF node.nil THEN TreeNode(key, value, NilNode, NilNode, 1)
  ELSE IF StrLess(key, node.key) THEN
    LET l == insert(node.left, key, value)
        n == [node EXCEPT !.left = l,
                          !.height = 1 + Max(height(l), height(node.right))]
    IN balance(n, key)
  ELSE IF StrLess(node.key, key) THEN
    LET r == insert(node.right, key, value)
        n == [node EXCEPT !.right = r,
                          !.height = 1 + Max(height(node.left), height(r))]
    IN balance(n, key)
  ELSE [node EXCEPT !.value = value]

RECURSIVE treeGet(_, _)
treeGet(node, key) ==
  IF node.nil THEN ZeroPosition
  ELSE IF node.key = key THEN node.value
  ELSE IF StrLess(key, node.key) THEN treeGet(node.left, key)
  ELSE treeGet(node.right, key)

RECURSIVE inOrder(_)
inOrder(node) ==
  IF node.nil THEN <<>>
  ELSE inOrder(node.left) \o <<KVPair(node.key, node.value)>> \o inOrder(node.right)

\* AVLTable{size, root}
NewAVLMemtable == [size |-> 0, root |-> NilNode]

\* AVLTable.Set: the size counter grows whenever the stored Position of the
\* key has Size 0 (key absent, or present as a tombstone).
MemSet(t, pair) ==
  [size |-> IF treeGet(t.root, pair.Key).Size = 0 THEN t.size + 1 ELSE t.size,
   root |-> insert(t.root, pair.Key, pair.Value)]

MemGet(t, key) == treeGet(t.root, key)

\* AVLTable.Contains: reports a key only when its Position has Size # 0.
MemContains(t, key) == treeGet(t.root, key).Size # 0

MemItems(t) == inOrder(t.root)

MemSize(t) == t.size

\* ---------------------------------------------------- skip-list memtable
\* SkipList{header, level, size}.  A *skipNode is the index of the node in
\* nodes; HeaderPtr stands for sl.header and NilPtr for nil.  forward[i]
\* of the source is forward[i + 1] here.
MaxLevel == 32
HeaderPtr == 0
NilPtr == -1

NewSkipListMemtable ==
  [header |-> [i \in 1..MaxLevel |-> NilPtr], level |-> 0, size |-> 0, nodes |-> <<>>]

\* current.forward[i]
skipForward(sl, current, i) ==
  IF current = HeaderPtr THEN sl.header[i + 1] ELSE sl.nodes[current].forward[i + 1]

\* for current.forward[i] != nil && current.forward[i].key < key
RECURSIVE skipAdvance(_, _, _, _)
skipAdvance(sl, current, i, key) ==
  LET nxt == skipForward(sl, current, i) IN
  IF nxt # NilPtr /\ StrLess(sl.nodes[nxt].key, key)
    THEN skipAdvance(sl, nxt, i, key)
    ELSE current

\* for i := sl.level - 1; i >= 0; i-- : the node reached and update[]
RECURSIVE skipDescend(_, _, _, _, _)
skipDescend(sl, current, i, key, update) ==
  IF i < 0 THEN [current |-> current, update |-> update]
  ELSE LET c == skipAdvance(sl, current, i, key)
       IN skipDescend(sl, c, i - 1, key, [update EXCEPT ![i + 1] = c])

\* The node the search for key ends on: current.forward[0] after the descent.
skipFind(sl, key) ==
  skipForward(sl,
              skipDescend(sl, HeaderPtr, sl.level - 1, key,
                          [i \in 1..MaxLevel |-> NilPtr]).current,
              0)

\* SkipList.Set on a key that is present, as it would be without
\* "current.value = pair.Value".
skipKeepValue(sl, current, value) == sl

\* SkipList.Set on a key that is present: current.value = pair.Value
skipUpdateValue(sl, current, value) ==
  [sl EXCEPT !.nodes[current].value = value]

\* SkipList.Set; newLevel is what randomLevel returns when it is called.
SkipSet(sl, pair, newLevel) ==
  LET d       == skipDescend(sl, HeaderPtr, sl.level - 1, pair.Key,
                             [i \in 1..MaxLevel |-> NilPtr])
      current == skipForward(sl, d.current, 0)
  IN IF current # NilPtr /\ sl.nodes[current].key = pair.Key
       THEN skipUpdateValue(sl, current, pair.Value)
     ELSE
       LET update  == [i \in 1..MaxLevel |->
                         IF i > sl.level /\ i <= newLevel THEN HeaderPtr
                         ELSE d.update[i]]
           id      == Len(sl.nodes) + 1
           newNode == [key |-> pair.Key, value |-> pair.Value,
                       forward |-> [i \in 1..newLevel |->
                                      skipForward(sl, update[i], i - 1)]]
           relink(ptr, fwd) ==
             [i \in 1..Len(fwd) |->
                IF i <= newLevel /\ update[i] = ptr THEN id ELSE fwd[i]]
       IN [header |-> relink(HeaderPtr, sl.header),
           level  |-> Max(sl.level, newLevel),
           size   |-> sl.size + 1,
           nodes  |-> Append([j \in 1..Len(sl.nodes) |->
                                [sl.nodes[j] EXCEPT !.forward = relink(j, @)]],
                             newNode)]

SkipGet(sl, key) ==
  LET current == skipFind(sl, key) IN
  IF current # NilPtr /\ sl.nodes[current].key = key
    THEN sl.nodes[current].value
    ELSE ZeroPosition

SkipContains(sl, key) ==
  LET current == skipFind(sl, key) IN
  current # NilPtr /\ sl.nodes[current].key = key

RECURSIVE skipWalk(_, _)
skipWalk(sl, current) ==
  IF current = NilPtr THEN <<>>
  ELSE <<KVPair(sl.nodes[current].key, sl.nodes[current].value)>>
         \o skipWalk(sl, skipForward(sl, current, 0))

SkipItems(sl) == skipWalk(sl, sl.header[1])

SkipSize(sl) == sl.size

\* SkipList.Reset: the nodes are no longer reachable from the header.
SkipReset(sl) == NewSkipListMemtable

\* --------------------------------------------------------- Bloom filters
\* False-positive rates are given in percent; the logarithms are fixed-point
\* numbers with six decimals.
Rates == {10, 50, 90}
NegLn(p) == CASE p = 1 -> 4605170 [] p = 10 -> 2302585 [] p = 50 -> 693147
              [] p = 90 -> 105361
Ln2 == 693147
Ln2Squared == 480453
Million == 1000000

\* math.Ceil(a / b) for a >= 0, b > 0
CeilDiv(a, b) == (a + b - 1) \div b

\* f.Bitset[byteIndex] |= 1 << bitIndex  and  f.Bitset[byteIndex] & (1 << bitIndex)
BitIsSet(byte, bitIndex) == (byte \div (2 ^ bitIndex)) % 2 = 1
SetBit(byte, bitIndex) == IF BitIsSet(byte, bitIndex) THEN byte ELSE byte + 2 ^ bitIndex

\* bloom.New(n, p, nil)
FilterNew(n, p) ==
  LET m == CeilDiv(n * NegLn(p), Ln2Squared)
      k == CeilDiv(Ln2 * m, n * Million)
  IN [Bitset |-> [i \in 1..((m + 7) \div 8) |-> 0], m |-> m, k |-> k]

\* The bit index Add and PossiblyExists compute for hash function i; hash
\* gives f.hash(key, i).
FilterIndex(f, hash, key, i) == hash[key][i + 1] % f.m

\* Filter.Add: the loop from hash function i on.
RECURSIVE FilterAddFrom(_, _, _, _)
FilterAddFrom(f, hash, key, i) ==
  IF i >= f.k THEN f
  ELSE LET h == FilterIndex(f, hash, key, i)
       IN FilterAddFrom([f EXCEPT !.Bitset[(h \div 8) + 1] = SetBit(@, h % 8)],
                        hash, key, i + 1)

FilterAdd(f, hash, key) == FilterAddFrom(f, hash, key, 0)

\* Filter.PossiblyExists
FilterPossiblyExists(f, hash, key) ==
  \A i \in 0..(f.k - 1) :
    LET h == FilterIndex(f, hash, key, i)
    IN BitIsSet(f.Bitset[(h \div 8) + 1], h % 8)

\* NewBloomFilter(capacity, falsePositiveRate): int() truncates.
NewBloomFilter(capacity, p) ==
  LET bitSize   == (capacity * NegLn(p)) \div Ln2Squared
      hashCount == (bitSize * Ln2) \div (capacity * Million)
  IN [bitArray |-> [i \in 1..bitSize |-> FALSE], hashCount |-> hashCount]

\* BloomFilter.Add: every hash function is fnv.New64(), so every round
\* computes the same index; sum64 gives hashFunc.Sum64() of the item.
BloomAdd(bf, sum64, item) ==
  IF bf.hashCount = 0 THEN bf
  ELSE [bf EXCEPT !.bitArray[(sum64[item] % Len(bf.bitArray)) + 1] = TRUE]

\* BloomFilter.Test
BloomTest(bf, sum64, item) ==
  \A i \in 1..bf.hashCount : bf.bitArray[(sum64[item] % Len(bf.bitArray)) + 1]

NoFilters == [made |-> FALSE]
NoTable == [made |-> FALSE]
\* The flusher before any request: blocked in the receive on flushRequested.
NoFlusher == [pc |-> "recv", pairs |-> <<>>, requests |-> 0, flushes |-> 0,
              closed |-> FALSE, latest |-> <<>>]

\* ------------------------------------------------------------------ WAL
\* WALEntry{Key, Value}
WALEntry(key, value) == [Key |-> key, Value |-> value]

\* DiskWAL.Append: the bytes handed to writer.Write.  The result of
\* binary.LittleEndian.AppendUint32 is dropped, so the buffer holds the
\* padded key followed directly by the value bytes.
WalRecordBytes(entry) == KeyToBytes(entry.Key) \o entry.Value

\* bytes.Buffer.Read into a zeroed buffer of n bytes: the bytes obtained.
BufRead(rest, n) == SubSeq(rest, 1, Min(n, Len(rest))) \o Zeros(n - Min(n, Len(rest)))
\* bytes.Buffer.Read reports io.EOF when the buffer is empty and n > 0.
BufEOF(rest, n) == rest = <<>> /\ n > 0
BufRest(rest, n) == SubSeq(rest, Min(n, Len(rest)) + 1, Len(rest))

\* mp[key] = value on a map kept as a function.
MapPut(mp, key, value) ==
  [k \in DOMAIN mp \cup {key} |-> IF k = key THEN value ELSE mp[k]]

EmptyMap == [k \in {} |-> <<>>]

\* DiskWAL.Retrieve: the parsing loop; returns the map key -> last value.
RECURSIVE WalParse(_, _)
WalParse(rest, mp) ==
  IF BufEOF(rest, KeySize) THEN mp
  ELSE
    LET keyBytes == BufRead(rest, KeySize)
        r1       == BufRest(rest, KeySize)
    IN IF BufEOF(r1, UintSize) THEN mp
       ELSE
         LET vlength == Uint32LE(BufRead(r1, UintSize))
             r2      == BufRest(r1, UintSize)
         IN IF BufEOF(r2, vlength) THEN mp
            ELSE WalParse(BufRest(r2, vlength),
                          MapPut(mp, TrimPaddedKey(keyBytes), BufRead(r2, vlength)))

WalRetrieve(walFile) == WalParse(walFile, EmptyMap)

\* ----------------------------------------------------------- value heap
\* DiskDataManager.Store: position of the value appended at the end.
StorePosition(heapFile, value) == Position(U32(Len(heapFile)), U32(Len(value)))

\* DiskDataManager.Retrieve.
Retrieve(heapFile, position) ==
  IF position.Size = 0 THEN [kind |-> "KeyNotFound", data |-> <<>>]
  ELSE IF position.Offset >= Len(heapFile) THEN [kind |-> "error", data |-> <<>>]
  ELSE [kind |-> "ok",
        data |-> BufRead(SubSeq(heapFile, position.Offset + 1, Len(heapFile)),
                         position.Size)]

\* A file offset (int64) as hi * 2^16 + lo, 0 <= lo < 2^16.
Limb == 65536
Wide(hi, lo) == [hi |-> hi, lo |-> lo]
WideAdd(w, n) == Wide(w.hi + ((w.lo + n) \div Limb), (w.lo + n) % Limb)
WideLess(a, b) == a.hi < b.hi \/ (a.hi = b.hi /\ a.lo < b.lo)
WideSub(a, b) == (a.hi - b.hi) * Limb + (a.lo - b.lo)
\* uint32(offset)
Uint32Of(w) == Wide(w.hi % Limb, w.lo)

\* data.bin as base bytes written by earlier stores, each of them Filler,
\* followed by the bytes of heapFile.
Filler == 170
HeapLength(base, heapFile) == WideAdd(base, Len(heapFile))
HeapByte(base, heapFile, at) ==
  IF WideLess(at, base) THEN Filler ELSE heapFile[WideSub(at, base) + 1]

\* DiskDataManager.Store on that file: Position{uint32(offset), uint32(len(value))}
StoreAt(base, heapFile, value) ==
  Position(Uint32Of(HeapLength(base, heapFile)), U32(Len(value)))

\* DiskDataManager.Retrieve on that file: Seek(int64(position.Offset)) and
\* one Read into a buffer of position.Size bytes.
RetrieveAt(base, heapFile, position) ==
  IF position.Size = 0 THEN [kind |-> "KeyNotFound", data |-> <<>>]
  ELSE IF ~WideLess(position.Offset, HeapLength(base, heapFile))
    THEN [kind |-> "error", data |-> <<>>]
  ELSE [kind |-> "ok",
        data |-> [j \in 1..position.Size |->
                    LET at == WideAdd(position.Offset, j - 1) IN
                    IF WideLess(at, HeapLength(base, heapFile))
                      THEN HeapByte(base, heapFile, at) ELSE 0]]

\* ---------------------------------------------------------------- SSTs
\* A key as it is read back from a file: padded on write, trimmed on read.
DiskKey(key) == TrimPaddedKey(KeyToBytes(key))

\* File contents of an SST: serialized metadata and the pair array.
\* valid = FALSE is a file that was created but holds no complete header.
SSTFile(isLevel, serial, pairs) ==
  [valid   |-> TRUE,
   IsLevel |-> isLevel,
   Serial  |-> U32(serial),
   Size    |-> U32(Len(pairs)),
   MinKey  |-> DiskKey(pairs[1].Key),
   MaxKey  |-> DiskKey(pairs[Len(pairs)].Key),
   Pairs   |-> [i \in 1..Len(pairs) |-> KVPair(DiskKey(pairs[i].Key), pairs[i].Value)]]

EmptyFile ==
  [valid |-> FALSE, IsLevel |-> FALSE, Serial |-> 0, Size |-> 0,
   MinKey |-> <<>>, MaxKey |-> <<>>, Pairs |-> <<>>]

RawPath(serial) == <<"sst_", serial>>
LevelPath(serial) == <<"lvl_", serial>>

\* SSTable: the in-memory handle (TableMetadata and the filter) of an open
\* file.  Filter is the set of keys added to the bloom filter.
SSTable(path, file) ==
  [Path |-> path, IsLevel |-> file.IsLevel, Serial |-> file.Serial,
   Size |-> file.Size, MinKey |-> file.MinKey, MaxKey |-> file.MaxKey,
   Filter |-> {file.Pairs[i].Key : i \in 1..Len(file.Pairs)}]

\* SSTable.nthKey(n), n counted from 0: fails when the read hits end of file.
nthKeyOk(files, table, n) ==
  /\ table.Path \in DOMAIN files
  /\ n + 1 <= Len(files[table.Path].Pairs)
nthKey(files, table, n) == files[table.Path].Pairs[n + 1]

\* SSTable.Search: the binary search loop.
RECURSIVE bsearch(_, _, _, _, _)
bsearch(files, table, key, left, right) ==
  IF left > right THEN [kind |-> "KeyNotFound", pos |-> ZeroPosition]
  ELSE
    LET mid == left + ((right - left) \div 2) IN
    IF ~nthKeyOk(files, table, mid) THEN [kind |-> "error", pos |-> ZeroPosition]
    ELSE
      LET pair == nthKey(files, table, mid) IN
      IF StrLess(pair.Key, key) THEN bsearch(files, table, key, mid + 1, right)
      ELSE IF StrLess(key, pair.Key) THEN bsearch(files, table, key, left, mid - 1)
      ELSE IF pair.Value.Size = 0 THEN [kind |-> "KeyRemoved", pos |-> ZeroPosition]
      ELSE [kind |-> "ok", pos |-> pair.Value]

\* SSTable.Search: range and filter test, then binary search.
Search(files, table, key) ==
  IF \/ StrLess(key, table.MinKey)
     \/ StrLess(table.MaxKey, key)
     \/ key \notin table.Filter
  THEN [kind |-> "KeyNotFound", pos |-> ZeroPosition]
  ELSE bsearch(files, table, key, 0, table.Size - 1)

\* SSTable.Items: Size pairs decoded from one bulk read; bytes past the end
\* of the file stay zero.  Fails when nothing at all can be read.
ItemsOk(files, table) ==
  table.Size = 0 \/ (table.Path \in DOMAIN files /\ Len(files[table.Path].Pairs) > 0)
Items(files, table) ==
  [i \in 1..table.Size |->
     IF i <= Len(files[table.Path].Pairs) THEN files[table.Path].Pairs[i]
     ELSE KVPair(<<>>, ZeroPosition)]

\* -------------------------------------------------------- index manager
\* The engine state handled by the operations below is a record
\*   memtable, sstables, levels, currSerial, lvlSerial   (IndexManager, in memory)
\*   wal, heap, files                                    (wal.log.bin, data.bin,
\*                                                        the SST files by path)

\* sort.Slice(tables, Serial descending) as Go runs it on short slices
\* (insertion sort: an element moves left only past strictly smaller serials).
RECURSIVE sortTablesBySerial(_)
sortTablesBySerial(tables) ==
  IF Len(tables) <= 1 THEN tables
  ELSE
    LET pre == sortTablesBySerial(SubSeq(tables, 1, Len(tables) - 1))
        x   == tables[Len(tables)]
        k   == Cardinality({i \in 1..Len(pre) : pre[i].Serial >= x.Serial})
    IN SubSeq(pre, 1, k) \o <<x>> \o SubSeq(pre, k + 1, Len(pre))

\* IndexManager.Get, step 2: the raw SSTs, newest first.  KeyRemoved ends the
\* lookup with KeyNotFound; every other error moves on to the next table.
RECURSIVE searchSSTables(_, _, _, _)
searchSSTables(files, tables, i, key) ==
  IF i > Len(tables) THEN [kind |-> "next", pos |-> ZeroPosition]
  ELSE
    LET r == Search(files, tables[i], key) IN
    IF r.kind = "ok" THEN r
    ELSE IF r.kind = "KeyRemoved" THEN [kind |-> "KeyNotFound", pos |-> ZeroPosition]
    ELSE searchSSTables(files, tables, i + 1, key)

\* IndexManager.Get, step 3: the levels, newest first.  An error other than
\* KeyNotFound/KeyRemoved is returned.
RECURSIVE searchLevels(_, _, _, _)
searchLevels(files, tables, i, key) ==
  IF i > Len(tables) THEN [kind |-> "KeyNotFound", pos |-> ZeroPosition]
  ELSE IF StrLess(key, tables[i].MinKey) \/ StrLess(tables[i].MaxKey, key)
    THEN searchLevels(files, tables, i + 1, key)
  ELSE
    LET r == Search(files, tables[i], key) IN
    IF r.kind = "ok" THEN r
    ELSE IF r.kind = "KeyRemoved" THEN [kind |-> "KeyNotFound", pos |-> ZeroPosition]
    ELSE IF r.kind = "KeyNotFound" THEN searchLevels(files, tables, i + 1, key)
    ELSE r

\* IndexManager.Get
IndexGet(st, key) ==
  IF MemContains(st.memtable, key) THEN
    LET indexNode == MemGet(st.memtable, key) IN
    IF indexNode.Size = 0 THEN [kind |-> "KeyNotFound", pos |-> ZeroPosition]
    ELSE [kind |-> "ok", pos |-> indexNode]
  ELSE
    LET r == searchSSTables(st.files, st.sstables, 1, key) IN
    IF r.kind # "next" THEN r
    ELSE searchLevels(st.files, st.levels, 1, key)

\* Engine.Get: the value bytes, or the error kind.
EngineGet(st, key) ==
  IF Len(key) > KeySize THEN [kind |-> "KeyTooLong", data |-> <<>>]
  ELSE
    LET indexNode == IndexGet(st, key) IN
    IF indexNode.kind # "ok" THEN [kind |-> indexNode.kind, data |-> <<>>]
    ELSE Retrieve(st.heap, indexNode.pos)

\* os.Create / file write: the file at path now has exactly this content.
WriteFile(files, path, content) ==
  [p \in DOMAIN files \cup {path} |-> IF p = path THEN content ELSE files[p]]

\* os.Remove
RemoveFile(files, path) == [p \in DOMAIN files \ {path} |-> files[p]]

\* IndexManager.Flush.  fault names the I/O step that fails, if any:
\* "create" (os.Create), "write" (file.Write), "open" (NewSSTable).
Flush(st, fault) ==
  LET path  == RawPath(st.currSerial)
      pairs == MemItems(st.memtable)
      file  == SSTFile(FALSE, st.currSerial, pairs)
  IN
  IF fault = "create" THEN [st |-> st, err |-> "Io"]
  ELSE IF fault = "write" THEN
    [st |-> [st EXCEPT !.files = WriteFile(@, path, EmptyFile)], err |-> "Io"]
  ELSE IF fault = "open" THEN
    [st |-> [st EXCEPT !.files = WriteFile(@, path, file),
                       !.memtable = NewAVLMemtable],
     err |-> "Io"]
  ELSE
    [st |-> [st EXCEPT !.files = WriteFile(@, path, file),
                       !.memtable = NewAVLMemtable,
                       !.sstables = sortTablesBySerial(
                                      Append(@, SSTable(path, file))),
                       !.currSerial = @ + 1],
     err |-> "nil"]

\* allItemsFromSSTables: the map key -> pair of the first table holding it.
RECURSIVE collectItems(_, _, _, _)
collectItems(files, tables, i, mp) ==
  IF i > Len(tables) THEN mp
  ELSE
    LET items == Items(files, tables[i])
        add[j \in 0..Len(items)] ==
          IF j = 0 THEN mp
          ELSE IF items[j].Key \in DOMAIN add[j - 1] THEN add[j - 1]
          ELSE MapPut(add[j - 1], items[j].Key, items[j])
    IN collectItems(files, tables, i + 1, add[Len(items)])

\* allItemsFromSSTables: the slice it returns.  Every map value is copied to
\* pairs[i] with i staying 0, so one pair (the last one in map iteration
\* order, named here by its key) survives beside len(mp)-1 zero pairs;
\* sort.Sort then orders the slice by Key.
allItemsFromSSTables(st, lastKey) ==
  LET mp    == collectItems(st.files, st.sstables, 1, EmptyMap)
      n     == Cardinality(DOMAIN mp)
      zeros == [i \in 1..(n - 1) |-> KVPair(<<>>, ZeroPosition)]
  IN IF StrLess(<<>>, lastKey) THEN zeros \o <<mp[lastKey]>>
     ELSE <<mp[lastKey]>> \o zeros

allItemsKeys(st) == DOMAIN collectItems(st.files, st.sstables, 1, EmptyMap)

RECURSIVE removeAll(_, _, _)
removeAll(files, tables, i) ==
  IF i > Len(tables) THEN files
  ELSE removeAll(RemoveFile(files, tables[i].Path), tables, i + 1)

\* IndexManager.createLevel
createLevel(st, lastKey) ==
  LET allPairs == allItemsFromSSTables(st, lastKey)
      path     == LevelPath(st.lvlSerial)
      file     == SSTFile(TRUE, st.lvlSerial, allPairs)
  IN [st EXCEPT !.files = removeAll(WriteFile(@, path, file), st.sstables, 1),
                !.lvlSerial = @ + 1,
                !.levels = sortTablesBySerial(Append(@, SSTable(path, file))),
                !.sstables = <<>>]

\* IndexManager.CompactionCheck as it would be with compaction disabled.
CompactionCheckDisabled(st) == {st}

\* IndexManager.CompactionCheck: the states it can end in.
CompactionCheck(st) ==
  IF Len(st.sstables) <= CompactionThreshold THEN {st}
  ELSE {createLevel(st, k) : k \in allItemsKeys(st)}

\* --------------------------------------------------------------- engine
\* Engine.Set / Engine.Delete without the key-size test: the record goes to
\* the WAL whatever the length of the key.
engineAppendUnchecked(st, entry, ignoreWAL, fault) ==
  IF ignoreWAL THEN [st |-> st, err |-> "nil"]
  ELSE IF fault = "wal" THEN [st |-> st, err |-> "Io"]
  ELSE [st |-> [st EXCEPT !.wal = @ \o WalRecordBytes(entry)], err |-> "nil"]

\* Engine.Set / Engine.Delete, first part: key validation and WAL append.
\* ignoreWAL is set during replay.  fault = "wal" makes wal.Append fail.
engineAppend(st, entry, ignoreWAL, fault) ==
  IF Len(entry.Key) > KeySize THEN [st |-> st, err |-> "KeyTooLong"]
  ELSE IF ignoreWAL THEN [st |-> st, err |-> "nil"]
  ELSE IF fault = "wal" THEN [st |-> st, err |-> "Io"]
  ELSE [st |-> [st EXCEPT !.wal = @ \o WalRecordBytes(entry)], err |-> "nil"]

\* Engine.Set: "Flush if the memtable exceeds its threshold".
needsFlush(st) == MemSize(st.memtable) >= MemtableSizeThreshold

\* Engine.Set as it would be without e.wal.Clear() after the flush.
walKept(st) == st

\* DiskWAL.Clear
walClear(st) == [st EXCEPT !.wal = <<>>]

\* Engine.Set: storageManager.Store(value).
engineStore(st, value) ==
  [st |-> [st EXCEPT !.heap = @ \o value], pos |-> StorePosition(st.heap, value)]

\* Engine.Set: indexManager.memtable.Set(KVPair{key, position});
\* IndexManager.Delete: memtable.Set(KVPair{Key: key}).
engineMemSet(st, key, pos) == [st EXCEPT !.memtable = MemSet(@, KVPair(key, pos))]

\* Engine.Set run to its end without I/O failure, as replay calls it:
\* the set of states it can end in (compaction picks among several).
EngineSet(st, key, value, ignoreWAL) ==
  LET a  == engineAppend(st, WALEntry(key, value), ignoreWAL, "none").st
      bs == IF needsFlush(a)
              THEN CompactionCheck(walClear(Flush(a, "none").st))
              ELSE {a}
  IN {engineMemSet(engineStore(b, value).st, key, engineStore(b, value).pos) : b \in bs}

\* Engine.Delete run to its end without I/O failure.
EngineDelete(st, key, ignoreWAL) ==
  engineMemSet(engineAppend(st, WALEntry(key, <<>>), ignoreWAL, "none").st,
               key, ZeroPosition)

\* Engine.setEntriesFromWAL: the entries are applied in map iteration order,
\* which Go leaves unspecified; all orders are followed.
RECURSIVE replay(_, _, _)
replay(st, entries, todo) ==
  IF todo = {} THEN {st}
  ELSE UNION {
         LET next == IF Len(entries[k]) > 0
                       THEN EngineSet(st, k, entries[k], TRUE)
                       ELSE {EngineDelete(st, k, TRUE)}
         IN UNION {replay(n, entries, todo \ {k}) : n \in next}
         : k \in todo}

\* IndexManager.parseHomeDir / readTable: every parsable file whose name has
\* the SST or level prefix is opened; the serial counters become the largest
\* serial read (never below 1).
RECURSIVE SetToSeq(_)
SetToSeq(S) ==
  IF S = {} THEN <<>>
  ELSE LET x == CHOOSE y \in S : TRUE IN <<x>> \o SetToSeq(S \ {x})

MaxOf(S, floor) == IF S = {} THEN floor
                   ELSE Max(floor, CHOOSE m \in S : \A n \in S : n <= m)

parseHomeDir(files) ==
  LET tables == {SSTable(p, files[p]) : p \in {q \in DOMAIN files : files[q].valid}}
      raws   == {t \in tables : ~t.IsLevel}
      lvls   == {t \in tables : t.IsLevel}
  IN [sstables   |-> sortTablesBySerial(SetToSeq(raws)),
      levels     |-> sortTablesBySerial(SetToSeq(lvls)),
      currSerial |-> MaxOf({t.Serial : t \in raws}, 1),
      lvlSerial  |-> MaxOf({t.Serial : t \in lvls}, 1)]

\* NewEngine: the states the engine can be in when it returns.
NewEngine(walFile, heapFile, files) ==
  LET im == parseHomeDir(files)
      st == [memtable |-> NewAVLMemtable, sstables |-> im.sstables,
             levels |-> im.levels, currSerial |-> im.currSerial,
             lvlSerial |-> im.lvlSerial,
             wal |-> walFile, heap |-> heapFile, files |-> files]
      entries == WalRetrieve(walFile)
  IN replay(st, entries, DOMAIN entries)

\* ------------------------------------------------------------ the system
\* Keys and values the clients use.
KeyA == <<1>>
KeyB == <<2>>
Keys == {KeyA, KeyB}
\* The n-th client call writes a value of its own: the one byte n.
ValueOf(n) == <<n>>

\* Client threads calling into the engine.
Threads == {1, 2}

VARIABLES
  memtable,    \* IndexManager.memtable
  sstables,    \* IndexManager.sstables
  levels,      \* IndexManager.levels
  currSerial,  \* IndexManager.currSerial
  lvlSerial,   \* IndexManager.lvlSerial
  wal,         \* contents of wal.log.bin
  heap,        \* contents of data.bin
  files,       \* contents of the sst_* and lvl_* files, by path
  up,          \* the process is running and NewEngine has returned
  pc,          \* per thread: the point reached in Engine.Set / Engine.Delete
  call,        \* per thread: the arguments and locals of the running call
  ret,         \* per thread: the last call that returned, with its error
  model,       \* per key: what the acknowledged calls say get must return
  nops,        \* number of Engine.Set / Engine.Delete calls made so far
  crashes,     \* number of crashes so far
  appended,    \* the entries wal.Append has written since the last wal.Clear
  skiplist,    \* a SkipList memtable given the calls the AVL memtable is given
  lastSet,     \* per key set since the last reset: the Position last set
  bloom,       \* the Bloom filters built, with the hash functions in use
  heapBase,    \* the number of bytes of data.bin that precede those of heap
  sst,         \* an SSTable written by Serialize: handle, filter, file position
  mu,          \* the mutexes: per mutex the thread that holds it, 0 for none
  flusher      \* the background flusher of the index manager and its channel

mem  == <<memtable, sstables, levels, currSerial, lvlSerial>>
disk == <<wal, heap, files>>
\* the components that stand apart from the engine
base == <<skiplist, lastSet, bloom, heapBase>>
comps == <<sst, mu, flusher>>
aux  == <<base, comps>>
vars == <<memtable, sstables, levels, currSerial, lvlSerial, wal, heap, files,
          up, pc, call, ret, model, nops, crashes, appended, skiplist, lastSet, bloom, heapBase,
          sst, mu, flusher>>

\* The engine state as the record the operations work on.
St ==
  [memtable |-> memtable, sstables |-> sstables, levels |-> levels,
   currSerial |-> currSerial, lvlSerial |-> lvlSerial,
   wal |-> wal, heap |-> heap, files |-> files]

Install(st) ==
  /\ memtable' = st.memtable
  /\ sstables' = st.sstables
  /\ levels' = st.levels
  /\ currSerial' = st.currSerial
  /\ lvlSerial' = st.lvlSerial
  /\ wal' = st.wal
  /\ heap' = st.heap
  /\ files' = st.files

\* The locals of a call: its arguments, its number n in the order of the WAL
\* appends, what wal.Append and Flush returned, the position Store returned,
\* and the engine state the call started from.
NoState == [none |-> TRUE]
NoCall == [op |-> "none", key |-> <<>>, value |-> <<>>, n |-> 0,
           walErr |-> "none", flushErr |-> "none", pos |-> ZeroPosition,
           before |-> NoState]
NoRet == [op |-> "none", key |-> <<>>, err |-> "none"]
Ret(c, err) == [op |-> c.op, key |-> c.key, err |-> err]

Found(v) == [kind |-> "ok", data |-> v]
NotFound == [kind |-> "KeyNotFound", data |-> <<>>]

\* The engine after NewEngine on an empty home directory.
InitEngine ==
  /\ memtable = NewAVLMemtable
  /\ sstables = <<>>
  /\ levels = <<>>
  /\ currSerial = 1
  /\ lvlSerial = 1
  /\ wal = <<>>
  /\ heap = <<>>
  /\ files = [p \in {} |-> EmptyFile]
  /\ up = TRUE
  /\ pc = [t \in Threads |-> "idle"]
  /\ call = [t \in Threads |-> NoCall]
  /\ ret = [t \in Threads |-> NoRet]
  /\ model = [k \in Keys |-> NotFound]
  /\ nops = 0
  /\ crashes = 0
  /\ appended = <<>>
  /\ skiplist = NewSkipListMemtable
  /\ lastSet = EmptyMap
  /\ bloom = NoFilters
  /\ sst = NoTable
  /\ mu = [wal |-> 0, latch |-> 0, readers |-> {}]
  /\ flusher = NoFlusher

Init ==
  /\ InitEngine
  /\ heapBase = Wide(0, 0)

\* Engine.Set as it would be without "return err" after wal.Append: the
\* call goes on to the flush test, the store and the memtable.
SetCallIgnoringAppendError(t, keys, faults) ==
  \E key \in keys, value \in {ValueOf(nops + 1)}, fault \in faults :
    LET a == engineAppend(St, WALEntry(key, value), FALSE, fault)
        c == [NoCall EXCEPT !.op = "set", !.key = key, !.value = value,
                            !.n = nops + 1, !.walErr = a.err, !.before = St]
    IN /\ up /\ pc[t] = "idle"
       /\ nops < MaxOps
       /\ nops' = nops + 1
       /\ Install(a.st)
       /\ call' = [call EXCEPT ![t] = c]
       /\ pc' = [pc EXCEPT ![t] = "setCheck"]
       /\ appended' = IF a.err = "nil" THEN Append(appended, WALEntry(key, value))
                                       ELSE appended
       /\ UNCHANGED <<up, ret, model, crashes, aux>>

\* Engine.Set, entry: key validation and wal.Append.
SetCallWith(t, keys, values, faults) ==
  \E key \in keys, value \in values, fault \in faults :
    LET a == engineAppend(St, WALEntry(key, value), FALSE, fault)
        c == [NoCall EXCEPT !.op = "set", !.key = key, !.value = value,
                            !.n = nops + 1, !.walErr = a.err, !.before = St]
    IN /\ up /\ pc[t] = "idle"
       /\ nops < MaxOps
       /\ nops' = nops + 1
       /\ Install(a.st)
       /\ call' = [call EXCEPT ![t] = c]
       /\ pc' = [pc EXCEPT ![t] = IF a.err = "nil" THEN "setCheck"
                                                    ELSE "appendFailed"]
       /\ appended' = IF a.err = "nil" THEN Append(appended, WALEntry(key, value))
                                       ELSE appended
       /\ UNCHANGED <<up, ret, model, crashes, aux>>

\* The n-th client call writes the one byte n.
SetCall(t, keys, faults) == SetCallWith(t, keys, {ValueOf(nops + 1)}, faults)

\* Engine.Set / Engine.Delete: "return err" after a failed wal.Append.
AppendFailed(t) ==
  /\ up /\ pc[t] = "appendFailed"
  /\ pc' = [pc EXCEPT ![t] = "idle"]
  /\ call' = [call EXCEPT ![t] = NoCall]
  /\ ret' = [ret EXCEPT ![t] = Ret(call[t], call[t].walErr)]
  /\ UNCHANGED <<mem, disk, up, model, nops, crashes, appended, aux>>

\* Engine.Set: the threshold test and, past the threshold, indexManager.Flush.
SetFlush(t, faults) ==
  /\ up /\ pc[t] = "setCheck"
  /\ IF needsFlush(St)
       THEN \E fault \in faults :
              LET f == Flush(St, fault)
              IN /\ Install(f.st)
                 /\ pc' = [pc EXCEPT ![t] = "setClear"]
                 /\ call' = [call EXCEPT ![t].flushErr = f.err]
       ELSE /\ pc' = [pc EXCEPT ![t] = "setStore"]
            /\ UNCHANGED <<mem, disk, call>>
  /\ UNCHANGED <<up, ret, model, nops, crashes, appended, aux>>

\* Engine.Set: e.wal.Clear() after the flush, whatever the flush returned.
SetClear(t) ==
  /\ up /\ pc[t] = "setClear"
  /\ Install(walClear(St))
  /\ appended' = IF walClear(St).wal = <<>> THEN <<>> ELSE appended
  /\ pc' = [pc EXCEPT ![t] = "setCompact"]
  /\ UNCHANGED <<up, call, ret, model, nops, crashes, aux>>

\* Engine.Set: indexManager.CompactionCheck().
SetCompact(t) ==
  /\ up /\ pc[t] = "setCompact"
  /\ \E st \in CompactionCheck(St) : Install(st)
  /\ pc' = [pc EXCEPT ![t] = "setStore"]
  /\ UNCHANGED <<up, call, ret, model, nops, crashes, appended, aux>>

\* Engine.Set: storageManager.Store(value).
SetStore(t, faults) ==
  /\ up /\ pc[t] = "setStore"
  /\ \E fault \in faults :
       IF fault = "store"
         THEN /\ pc' = [pc EXCEPT ![t] = "idle"]
              /\ call' = [call EXCEPT ![t] = NoCall]
              /\ ret' = [ret EXCEPT ![t] = Ret(call[t], "engine failed to write")]
              /\ UNCHANGED <<mem, disk>>
         ELSE LET s == engineStore(St, call[t].value)
              IN /\ Install(s.st)
                 /\ pc' = [pc EXCEPT ![t] = "setMem"]
                 /\ call' = [call EXCEPT ![t].pos = s.pos]
                 /\ ret' = ret
  /\ UNCHANGED <<up, model, nops, crashes, appended, aux>>

\* Engine.Set: memtable.Set and return nil.
SetMem(t) ==
  /\ up /\ pc[t] = "setMem"
  /\ Install(engineMemSet(St, call[t].key, call[t].pos))
  /\ pc' = [pc EXCEPT ![t] = "idle"]
  /\ call' = [call EXCEPT ![t] = NoCall]
  /\ ret' = [ret EXCEPT ![t] = Ret(call[t], "nil")]
  /\ model' = [model EXCEPT ![call[t].key] = Found(call[t].value)]
  /\ UNCHANGED <<up, nops, crashes, appended, aux>>

\* Engine.Delete, entry: key validation and wal.Append of the empty value.
DeleteCall(t, keys, faults) ==
  \E key \in keys, fault \in faults :
    LET a == engineAppend(St, WALEntry(key, <<>>), FALSE, fault)
        c == [NoCall EXCEPT !.op = "delete", !.key = key,
                            !.n = nops + 1, !.walErr = a.err, !.before = St]
    IN /\ up /\ pc[t] = "idle"
       /\ nops < MaxOps
       /\ nops' = nops + 1
       /\ Install(a.st)
       /\ call' = [call EXCEPT ![t] = c]
       /\ pc' = [pc EXCEPT ![t] = IF a.err = "nil" THEN "delMem"
                                                    ELSE "appendFailed"]
       /\ appended' = IF a.err = "nil" THEN Append(appended, WALEntry(key, <<>>))
                                       ELSE appended
       /\ UNCHANGED <<up, ret, model, crashes, aux>>

\* Engine.Delete: indexManager.Delete(key) and return nil.
DeleteMem(t) ==
  /\ up /\ pc[t] = "delMem"
  /\ Install(engineMemSet(St, call[t].key, ZeroPosition))
  /\ pc' = [pc EXCEPT ![t] = "idle"]
  /\ call' = [call EXCEPT ![t] = NoCall]
  /\ ret' = [ret EXCEPT ![t] = Ret(call[t], "nil")]
  /\ model' = [model EXCEPT ![call[t].key] = NotFound]
  /\ UNCHANGED <<up, nops, crashes, appended, aux>>

\* The process dies: everything in memory is gone, the files stay.
Crash ==
  /\ up /\ crashes < MaxCrashes
  /\ up' = FALSE
  /\ memtable' = NewAVLMemtable
  /\ sstables' = <<>>
  /\ levels' = <<>>
  /\ currSerial' = 1
  /\ lvlSerial' = 1
  /\ pc' = [t \in Threads |-> "idle"]
  /\ call' = [t \in Threads |-> NoCall]
  /\ ret' = [t \in Threads |-> NoRet]
  /\ crashes' = crashes + 1
  /\ UNCHANGED <<disk, model, nops, appended, aux>>

\* NewEngine on the directory left behind.
Open ==
  /\ ~up
  /\ \E st \in NewEngine(wal, heap, files) :
       /\ Install(st)
       /\ appended' = IF st.wal = wal THEN appended ELSE <<>>
  /\ up' = TRUE
  /\ UNCHANGED <<pc, call, ret, model, nops, crashes, aux>>

NoFault == {"none"}

\* One client thread, no I/O failures; crashes and restarts.
Next ==
  \/ SetCall(1, Keys, NoFault)
  \/ SetFlush(1, NoFault)
  \/ SetClear(1)
  \/ SetCompact(1)
  \/ SetStore(1, NoFault)
  \/ SetMem(1)
  \/ DeleteCall(1, Keys, NoFault)
  \/ DeleteMem(1)
  \/ Crash
  \/ Open

Spec == Init /\ [][Next]_vars

\* The I/O steps that can fail: wal.Append; os.Create, file.Write and
\* NewSSTable inside Flush; storageManager.Store.
WalFaults == {"none", "wal"}
FlushFaults == {"none", "create", "write", "open"}
StoreFaults == {"none", "store"}

\* One client thread whose I/O can fail.
NextFault ==
  \/ SetCall(1, Keys, WalFaults)
  \/ AppendFailed(1)
  \/ SetFlush(1, FlushFaults)
  \/ SetClear(1)
  \/ SetCompact(1)
  \/ SetStore(1, StoreFaults)
  \/ SetMem(1)
  \/ DeleteCall(1, Keys, WalFaults)
  \/ DeleteMem(1)

SpecFault == Init /\ [][NextFault]_vars

\* Two client threads, no I/O failures: the engine takes no lock around a
\* call, so the steps of the two calls interleave.
NextConc ==
  \E t \in Threads :
    \/ nops < MaxConcOps /\ SetCall(t, Keys, NoFault)
    \/ SetFlush(t, NoFault)
    \/ SetClear(t)
    \/ SetCompact(t)
    \/ SetStore(t, NoFault)
    \/ SetMem(t)
    \/ nops < MaxConcOps /\ DeleteCall(t, Keys, NoFault)
    \/ DeleteMem(t)

SpecConc == Init /\ [][NextConc]_vars

\* What get returns for every client key.
View(st) == [k \in Keys |-> EngineGet(st, k)]

Idle == up /\ \A t \in Threads : pc[t] = "idle"

\* ------------------------------------------------------------- readers
\* IndexManager.Flush, first half: os.Create, memtable.Items, file.Write and
\* "im.memtable = NewAVLMemtable()".
FlushWrite(st) ==
  LET path == RawPath(st.currSerial)
      file == SSTFile(FALSE, st.currSerial, MemItems(st.memtable))
  IN [st EXCEPT !.files = WriteFile(@, path, file),
                !.memtable = NewAVLMemtable]

\* IndexManager.Flush, second half: NewSSTable on the file just written,
\* append to im.sstables, sortTablesBySerial, currSerial++.
FlushInstall(st) ==
  LET path == RawPath(st.currSerial)
  IN [st EXCEPT !.sstables = sortTablesBySerial(
                               Append(@, SSTable(path, st.files[path]))),
                !.currSerial = @ + 1]

\* Engine.Set: the threshold test and the first half of Flush.
SetFlushWrite(t) ==
  /\ up /\ pc[t] = "setCheck"
  /\ IF needsFlush(St)
       THEN /\ Install(FlushWrite(St))
            /\ pc' = [pc EXCEPT ![t] = "flushInstall"]
       ELSE /\ pc' = [pc EXCEPT ![t] = "setStore"]
            /\ UNCHANGED <<mem, disk>>
  /\ UNCHANGED <<up, call, ret, model, nops, crashes, appended, aux>>

\* Engine.Set: the second half of Flush, which returns nil.
SetFlushInstall(t) ==
  /\ up /\ pc[t] = "flushInstall"
  /\ Install(FlushInstall(St))
  /\ pc' = [pc EXCEPT ![t] = "setClear"]
  /\ call' = [call EXCEPT ![t].flushErr = "nil"]
  /\ UNCHANGED <<up, ret, model, nops, crashes, appended, aux>>

\* What Engine.Get returned: the error kind and the value bytes.
GetRet(c, r) == [op |-> "get", key |-> c.key, err |-> r.kind, data |-> r.data]

\* Engine.Get: indexManager.Get gave (pos, kind); storageManager.Retrieve.
getFinish(st, r) ==
  IF r.kind # "ok" THEN [kind |-> r.kind, data |-> <<>>]
  ELSE Retrieve(st.heap, r.pos)

\* Engine.Get, entry: key validation, which returns KeyTooLong at once, and
\* im.memtable.Contains(key).
\* The call records in n how many Set / Delete calls had begun before it.
GetCall(t, keys) ==
  \E key \in keys :
    LET c == [NoCall EXCEPT !.op = "get", !.key = key, !.n = nops,
                            !.before = St]
    IN /\ up /\ pc[t] = "idle"
       /\ IF Len(key) > KeySize
            THEN /\ ret' = [ret EXCEPT ![t] =
                              GetRet(c, [kind |-> "KeyTooLong", data |-> <<>>])]
                 /\ UNCHANGED <<pc, call>>
            ELSE /\ call' = [call EXCEPT ![t] = c]
                 /\ pc' = [pc EXCEPT ![t] = IF MemContains(memtable, key)
                                              THEN "getMem" ELSE "getTables"]
                 /\ ret' = ret
       /\ UNCHANGED <<mem, disk, up, model, nops, crashes, appended, aux>>

\* IndexManager.Get, step 1 after Contains said yes: im.memtable.Get(key).
GetMem(t) ==
  /\ up /\ pc[t] = "getMem"
  /\ LET indexNode == MemGet(memtable, call[t].key)
         r == IF indexNode.Size = 0
                THEN [kind |-> "KeyNotFound", pos |-> ZeroPosition]
                ELSE [kind |-> "ok", pos |-> indexNode]
     IN ret' = [ret EXCEPT ![t] = GetRet(call[t], getFinish(St, r))]
  /\ pc' = [pc EXCEPT ![t] = "idle"]
  /\ call' = [call EXCEPT ![t] = NoCall]
  /\ UNCHANGED <<mem, disk, up, model, nops, crashes, appended, aux>>

\* IndexManager.Get, steps 2 and 3 under mu.RLock: the raw SSTs, the levels.
GetTables(t) ==
  /\ up /\ pc[t] = "getTables"
  /\ LET s == searchSSTables(files, sstables, 1, call[t].key)
         r == IF s.kind # "next" THEN s
              ELSE searchLevels(files, levels, 1, call[t].key)
     IN ret' = [ret EXCEPT ![t] = GetRet(call[t], getFinish(St, r))]
  /\ pc' = [pc EXCEPT ![t] = "idle"]
  /\ call' = [call EXCEPT ![t] = NoCall]
  /\ UNCHANGED <<mem, disk, up, model, nops, crashes, appended, aux>>

\* Thread 1 writes, thread 2 reads; no I/O failures.  Flush runs without a
\* lock, so a read can fall between its two halves.
NextGet ==
  \/ nops < MaxConcOps /\ SetCall(1, Keys, NoFault)
  \/ SetFlushWrite(1)
  \/ SetFlushInstall(1)
  \/ SetClear(1)
  \/ SetCompact(1)
  \/ SetStore(1, NoFault)
  \/ SetMem(1)
  \/ nops < MaxConcOps /\ DeleteCall(1, Keys, NoFault)
  \/ DeleteMem(1)
  \/ GetCall(2, Keys)
  \/ GetMem(2)
  \/ GetTables(2)

SpecGet == Init /\ [][NextGet]_vars

\* ------------------------------------------------------------ key sizes
\* A key of exactly KeySize bytes and one of KeySize + 1 bytes.
FullKey == [i \in 1..KeySize |-> 3]
LongKey == [i \in 1..(KeySize + 1) |-> 3]
SizedKeys == {KeyA, FullKey, LongKey}

\* One client thread calling Set, Delete and Get with keys of every size.
NextKey ==
  \/ nops < MaxConcOps /\ SetCall(1, SizedKeys, NoFault)
  \/ AppendFailed(1)
  \/ SetFlush(1, NoFault)
  \/ SetClear(1)
  \/ SetCompact(1)
  \/ SetStore(1, NoFault)
  \/ SetMem(1)
  \/ nops < MaxConcOps /\ DeleteCall(1, SizedKeys, NoFault)
  \/ DeleteMem(1)
  \/ GetCall(1, SizedKeys)
  \/ GetMem(1)
  \/ GetTables(1)

SpecKey == Init /\ [][NextKey]_vars

\* ----------------------------------------------------------------- scan
\* SSTable.Keys: one bulk read of the pair array, as SSTable.Items.
SSTKeysOk(fs, table) == ItemsOk(fs, table)

\* SSTable.Keys: the keys of the pairs whose Position has Size > 0.
SSTKeys(fs, table) ==
  LET items == Items(fs, table)
  IN {items[i].Key : i \in {j \in DOMAIN items : items[j].Value.Size > 0}}

\* IndexManager.Keys as it would be without the levels and without the
\* removal of the memtable tombstones: the raw SSTs only, then every
\* memtable pair inserted.
IndexKeysRawOnly(st) ==
  LET tables == st.sstables
      items  == MemItems(st.memtable)
  IN IF \E i \in DOMAIN tables : ~SSTKeysOk(st.files, tables[i])
       THEN [err |-> "Io", keys |-> {}]
       ELSE [err |-> "nil",
             keys |-> UNION {SSTKeys(st.files, tables[i]) : i \in DOMAIN tables}
                        \cup {items[j].Key : j \in DOMAIN items}]

\* IndexManager.Keys: the map "final" when the function returns.  The keys
\* of every raw SST and level are inserted, then the memtable pairs are
\* folded in in order: a tombstone deletes its key, a live pair inserts it.
IndexKeys(st) ==
  LET tables == st.sstables \o st.levels
      items  == MemItems(st.memtable)
      final[j \in 0..Len(items)] ==
        IF j = 0
          THEN UNION {SSTKeys(st.files, tables[i]) : i \in DOMAIN tables}
        ELSE IF items[j].Value.Size = 0 THEN final[j - 1] \ {items[j].Key}
        ELSE final[j - 1] \cup {items[j].Key}
  IN IF \E i \in DOMAIN tables : ~SSTKeysOk(st.files, tables[i])
       THEN [err |-> "Io", keys |-> {}]
       ELSE [err |-> "nil", keys |-> final[Len(items)]]

\* "for key := range final": the slices a map iteration can produce.
RECURSIVE MapOrders(_)
MapOrders(S) ==
  IF S = {} THEN {<<>>}
  ELSE UNION {{<<x>> \o rest : rest \in MapOrders(S \ {x})} : x \in S}

\* strings.HasPrefix
HasPrefix(key, pattern) ==
  /\ Len(pattern) <= Len(key)
  /\ SubSeq(key, 1, Len(pattern)) = pattern

\* The loop of Engine.Scan: the keys that have the prefix, in slice order.
RECURSIVE filterPrefix(_, _)
filterPrefix(keys, pattern) ==
  IF keys = <<>> THEN <<>>
  ELSE (IF HasPrefix(Head(keys), pattern) THEN <<Head(keys)>> ELSE <<>>)
         \o filterPrefix(Tail(keys), pattern)

\* Engine.Scan: the (results, err) it can return.
EngineScan(st, pattern) ==
  LET k == IndexKeys(st) IN
  IF k.err # "nil" THEN {[err |-> k.err, data |-> <<>>]}
  ELSE {[err |-> "nil",
         data |-> IF Len(pattern) = 0 THEN keys ELSE filterPrefix(keys, pattern)]
        : keys \in MapOrders(k.keys)}

\* Keys and patterns of the scanning client.
KeyAB == <<1, 2>>
ScanKeys == {KeyA, KeyAB, KeyB}
Patterns == {<<>>, KeyA, KeyAB}

\* Engine.Scan, entry.
ScanCall(t, patterns) ==
  \E pattern \in patterns :
    /\ up /\ pc[t] = "idle"
    /\ call' = [call EXCEPT ![t] = [NoCall EXCEPT !.op = "scan", !.key = pattern]]
    /\ pc' = [pc EXCEPT ![t] = "scanKeys"]
    /\ UNCHANGED <<mem, disk, up, ret, model, nops, crashes, appended, aux>>

\* Engine.Scan: indexManager.Keys, the prefix filter and the return.
ScanKeysStep(t) ==
  /\ up /\ pc[t] = "scanKeys"
  /\ \E r \in EngineScan(St, call[t].key) :
       ret' = [ret EXCEPT ![t] = [op |-> "scan", key |-> call[t].key,
                                  err |-> r.err, data |-> r.data]]
  /\ pc' = [pc EXCEPT ![t] = "idle"]
  /\ call' = [call EXCEPT ![t] = NoCall]
  /\ UNCHANGED <<mem, disk, up, model, nops, crashes, appended, aux>>

\* One client thread calling Set, Delete (of KeyA) and Scan.
NextScan ==
  \/ SetCall(1, ScanKeys, NoFault)
  \/ SetFlush(1, NoFault)
  \/ SetClear(1)
  \/ SetCompact(1)
  \/ SetStore(1, NoFault)
  \/ SetMem(1)
  \/ DeleteCall(1, {KeyA}, NoFault)
  \/ DeleteMem(1)
  \/ ScanCall(1, Patterns)
  \/ ScanKeysStep(1)

SpecScan == Init /\ [][NextScan]_vars

\* ------------------------------------------------- compaction failures
\* The I/O steps of createLevel that can fail: os.Create, the Items read
\* inside allItemsFromSSTables, file.Write, NewSSTable.
CompactFaults == {"create", "items", "write", "open"}

\* createLevel as it would be if the raw SSTs were removed before the
\* errors are looked at.
createLevelFailedAfterRemoval(st, lastKey, fault) ==
  [st EXCEPT !.files = removeAll(@, st.sstables, 1), !.sstables = <<>>]

\* IndexManager.createLevel returning an error: the state it leaves.  The
\* level file exists once os.Create has succeeded; it is complete only when
\* file.Write has succeeded.
createLevelFailed(st, lastKey, fault) ==
  LET path == LevelPath(st.lvlSerial)
      file == SSTFile(TRUE, st.lvlSerial, allItemsFromSSTables(st, lastKey))
  IN IF fault = "create" THEN st
     ELSE IF fault \in {"items", "write"}
       THEN [st EXCEPT !.files = WriteFile(@, path, EmptyFile)]
     ELSE [st EXCEPT !.files = WriteFile(@, path, file)]

\* Engine.Set: indexManager.CompactionCheck() returns an error.
SetCompactFailed(t, faults) ==
  /\ up /\ pc[t] = "setCompact"
  /\ Len(sstables) > CompactionThreshold
  /\ \E fault \in faults, k \in allItemsKeys(St) :
       Install(createLevelFailed(St, k, fault))
  /\ pc' = [pc EXCEPT ![t] = "panic"]
  /\ UNCHANGED <<up, call, ret, model, nops, crashes, appended, aux>>

\* Engine.Set: panic(err).  Either the caller recovers and the call is
\* abandoned, or the process dies.
SetPanic(t) ==
  /\ up /\ pc[t] = "panic"
  /\ \/ /\ pc' = [pc EXCEPT ![t] = "idle"]
        /\ call' = [call EXCEPT ![t] = NoCall]
        /\ ret' = [ret EXCEPT ![t] = Ret(call[t], "panic")]
        /\ UNCHANGED <<mem, up>>
     \/ /\ up' = FALSE
        /\ memtable' = NewAVLMemtable
        /\ sstables' = <<>>
        /\ levels' = <<>>
        /\ currSerial' = 1
        /\ lvlSerial' = 1
        /\ pc' = [u \in Threads |-> "idle"]
        /\ call' = [u \in Threads |-> NoCall]
        /\ ret' = [u \in Threads |-> NoRet]
  /\ UNCHANGED <<disk, model, nops, crashes, appended, aux>>

\* One client thread; the I/O of compaction can fail.
NextCompact ==
  \/ SetCall(1, Keys, NoFault)
  \/ SetFlush(1, NoFault)
  \/ SetClear(1)
  \/ SetCompact(1)
  \/ SetCompactFailed(1, CompactFaults)
  \/ SetPanic(1)
  \/ SetStore(1, NoFault)
  \/ SetMem(1)
  \/ DeleteCall(1, Keys, NoFault)
  \/ DeleteMem(1)

SpecCompact == Init /\ [][NextCompact]_vars

\* ------------------------------------------------------------- torn WAL
\* A WAL file in the record format Retrieve parses (padded key, value length
\* as a little-endian uint32, value bytes), written record by record, whose
\* last write may be cut short at any byte when the process dies.
MaxRecords == 2
TornValues == {<<>>, <<7>>, <<7, 8>>}
TornEntries == {WALEntry(k, v) : k \in Keys, v \in TornValues}

\* binary.LittleEndian.PutUint32
PutUint32LE(n) ==
  <<n % 256, (n \div 256) % 256, (n \div 65536) % 256, (n \div 16777216) % 256>>

\* One record as WAL.Log writes it.
LogBytes(entry) ==
  KeyToBytes(entry.Key) \o PutUint32LE(Len(entry.Value)) \o entry.Value

\* What Retrieve returned: no error can come out of bytes.Buffer.Read but
\* io.EOF, which ends the loop.
RetrieveRet(walFile) ==
  [op |-> "retrieve", key |-> <<>>, err |-> "nil", entries |-> WalRetrieve(walFile)]

\* A whole record reaches the file.
WalLog(t, entries) ==
  /\ up /\ pc[t] = "idle"
  /\ Len(appended) < MaxRecords
  /\ \E e \in entries :
       /\ wal' = wal \o LogBytes(e)
       /\ appended' = Append(appended, e)
  /\ UNCHANGED <<mem, heap, files, up, pc, call, ret, model, nops, crashes, aux>>

\* The write of a record is cut short: only the first cut bytes reach the
\* file, 0 < cut < length of the record.
WalLogTorn(t, entries) ==
  /\ up /\ pc[t] = "idle"
  /\ Len(appended) < MaxRecords
  /\ \E e \in entries : \E cut \in 1..(Len(LogBytes(e)) - 1) :
       /\ wal' = wal \o SubSeq(LogBytes(e), 1, cut)
       /\ call' = [call EXCEPT ![t] = [NoCall EXCEPT !.op = "log", !.key = e.Key,
                                                 !.value = e.Value, !.n = cut]]
  /\ pc' = [pc EXCEPT ![t] = "torn"]
  /\ UNCHANGED <<mem, heap, files, up, ret, model, nops, crashes, appended, aux>>

\* DiskWAL.Retrieve on the file as it is.
WalRetrieveStep(t) ==
  /\ up /\ pc[t] \in {"idle", "torn"}
  /\ ret' = [ret EXCEPT ![t] = RetrieveRet(wal)]
  /\ pc' = [pc EXCEPT ![t] = IF pc[t] = "torn" THEN "tornRead" ELSE "idle"]
  /\ UNCHANGED <<mem, disk, up, call, model, nops, crashes, appended, aux>>

NextTorn ==
  \/ WalLog(1, TornEntries)
  \/ WalLogTorn(1, TornEntries)
  \/ WalRetrieveStep(1)

SpecTorn == Init /\ [][NextTorn]_vars

\* ------------------------------------------------------------ memtables
\* The two Memtable implementations given the same calls.
MaxMemOps == 5
MaxRandomLevel == 2
MemKeys == {KeyA, KeyAB, KeyB}
MemPositions == {ZeroPosition, Position(0, 1), Position(1, 1)}

\* Flush empties the AVL memtable by installing a new one.
MemReset(t) == NewAVLMemtable

\* Memtable.Set on both implementations; randomLevel, called when the key
\* is not in the skip list, returns any level from 1 up.
MemtableSet(keys, positions) ==
  /\ nops < MaxMemOps
  /\ \E k \in keys, p \in positions :
     \E newLevel \in IF SkipContains(skiplist, k) THEN {1} ELSE 1..MaxRandomLevel :
       /\ memtable' = MemSet(memtable, KVPair(k, p))
       /\ skiplist' = SkipSet(skiplist, KVPair(k, p), newLevel)
       /\ lastSet' = MapPut(lastSet, k, p)
  /\ nops' = nops + 1
  /\ UNCHANGED <<sstables, levels, currSerial, lvlSerial, disk, up, pc, call,
                 ret, model, crashes, appended, bloom, heapBase, comps>>

\* Memtable.Reset on both implementations.
MemtableReset ==
  /\ nops < MaxMemOps
  /\ memtable' = MemReset(memtable)
  /\ skiplist' = SkipReset(skiplist)
  /\ lastSet' = EmptyMap
  /\ nops' = nops + 1
  /\ UNCHANGED <<sstables, levels, currSerial, lvlSerial, disk, up, pc, call,
                 ret, model, crashes, appended, bloom, heapBase, comps>>

NextMem ==
  \/ MemtableSet(MemKeys, MemPositions)
  \/ MemtableReset

SpecMem == Init /\ [][NextMem]_vars

\* items is one pair per key of want, with the Position want gives it, in
\* strictly ascending key order.
OrderedItemsOf(items, want) ==
  /\ Len(items) = Cardinality(DOMAIN want)
  /\ \A i \in DOMAIN items :
       /\ items[i].Key \in DOMAIN want
       /\ items[i].Value = want[items[i].Key]
  /\ \A i, j \in DOMAIN items : i < j => StrLess(items[i].Key, items[j].Key)

\* -------------------------------------------------------- filters in use
\* A Filter and a BloomFilter built for the same n and p and given the same
\* keys.  The hash functions are any functions of the key (and seed).
MaxFilterN == 2
MaxHashFuncs == 4
FilterKeys == {KeyA, KeyB}
HashValues == {3, 8}

\* bloom.New and NewBloomFilter
FiltersNew ==
  /\ ~bloom.made
  /\ \E n \in 1..MaxFilterN, p \in Rates,
        hash \in [FilterKeys -> [1..MaxHashFuncs -> HashValues]],
        sum64 \in [FilterKeys -> HashValues] :
       bloom' = [made |-> TRUE, n |-> n, p |-> p, hash |-> hash, sum64 |-> sum64,
                 filter |-> FilterNew(n, p), bf |-> NewBloomFilter(n, p),
                 added |-> {}]
  /\ UNCHANGED <<mem, disk, up, pc, call, ret, model, nops, crashes, appended,
                 skiplist, lastSet, heapBase, comps>>

\* Filter.Add and BloomFilter.Add
FiltersAdd(keys) ==
  /\ bloom.made
  /\ \E key \in keys :
       bloom' = [bloom EXCEPT !.filter = FilterAdd(@, bloom.hash, key),
                              !.bf = BloomAdd(@, bloom.sum64, key),
                              !.added = @ \cup {key}]
  /\ UNCHANGED <<mem, disk, up, pc, call, ret, model, nops, crashes, appended,
                 skiplist, lastSet, heapBase, comps>>

NextBloom ==
  \/ FiltersNew
  \/ FiltersAdd(FilterKeys)

SpecBloom == Init /\ [][NextBloom]_vars

\* ---------------------------------------------------------------- close
CloseFaults == {"none", "table"}

\* IndexManager.Close followed by DiskDataManager.Close: the files closed
\* and the error returned.  With fault "table" the Close of the first table
\* fails and Engine.Close returns there.
engineClose(st, fault) ==
  IF fault = "table"
    THEN [err |-> "error", closed |-> {}]
    ELSE [err |-> "nil",
          closed |-> {st.sstables[i].Path : i \in DOMAIN st.sstables}
                       \cup {st.levels[i].Path : i \in DOMAIN st.levels}
                       \cup {<<"data.bin">>}]

\* Engine.Close: no flush is requested and the WAL is left open; the
\* memtable is as it was when the call returns.
EngineClose(t, faults) ==
  /\ up /\ pc[t] = "idle"
  /\ \E fault \in faults :
       /\ fault = "table" => Len(sstables) + Len(levels) > 0
       /\ ret' = [ret EXCEPT ![t] =
                    [op |-> "close", key |-> <<>>, err |-> engineClose(St, fault).err,
                     closed |-> engineClose(St, fault).closed]]
       /\ call' = [call EXCEPT ![t] = [NoCall EXCEPT !.op = "close", !.before = St,
                                                 !.flushErr = fault]]
  /\ pc' = [pc EXCEPT ![t] = "closed"]
  /\ UNCHANGED <<mem, disk, up, model, nops, crashes, appended, aux>>

\* One client thread that ends with Close.
NextClose ==
  \/ SetCall(1, Keys, NoFault)
  \/ SetFlush(1, NoFault)
  \/ SetClear(1)
  \/ SetCompact(1)
  \/ SetStore(1, NoFault)
  \/ SetMem(1)
  \/ DeleteCall(1, Keys, NoFault)
  \/ DeleteMem(1)
  \/ EngineClose(1, CloseFaults)

SpecClose == Init /\ [][NextClose]_vars

\* ------------------------------------------------------------ key codec
MaxCodecLen == 3
CodecBytes == {0, 1, 2}
\* Keys of 1..MaxCodecLen bytes, and keys of KeySize - 1 and KeySize bytes.
CodecKeys ==
  UNION {[1..n -> CodecBytes] : n \in 1..MaxCodecLen}
    \cup {[i \in 1..(KeySize - 1) |-> 3], FullKey}

\* KeyToBytes of internal/shared: the key followed by keySize - len(key)
\* null bytes, for a key of at most keySize bytes.
KeyToBytesSized(key, keySize) ==
  [err |-> IF Len(key \o Zeros(keySize - Len(key))) # keySize THEN "ErrKeyTooLong" ELSE "nil",
   bytes |-> key \o Zeros(keySize - Len(key))]

\* KeyToBytes on two keys, once.
CodecEncode(t, keys) ==
  /\ up /\ pc[t] = "idle"
  /\ ret[t] = NoRet
  /\ \E k1 \in keys, k2 \in keys :
       ret' = [ret EXCEPT ![t] =
                 [op |-> "encode", key |-> k1, err |-> KeyToBytesSized(k1, KeySize).err,
                  other |-> k2, padded |-> KeyToBytes(k1), paddedOther |-> KeyToBytes(k2),
                  sized |-> KeyToBytesSized(k1, KeySize).bytes]]
  /\ UNCHANGED <<mem, disk, up, pc, call, model, nops, crashes, appended, aux>>

\* TrimPaddedKey on the padded key, and KeyToBytes on what it returns.
CodecDecode(t) ==
  /\ up /\ pc[t] = "idle"
  /\ ret[t].op = "encode"
  /\ ret' = [ret EXCEPT ![t] =
               [op |-> "decode", key |-> ret[t].key, err |-> ret[t].err,
                other |-> ret[t].other, padded |-> ret[t].padded,
                paddedOther |-> ret[t].paddedOther, sized |-> ret[t].sized,
                decoded |-> TrimPaddedKey(ret[t].padded),
                again |-> KeyToBytes(TrimPaddedKey(ret[t].padded))]]
  /\ UNCHANGED <<mem, disk, up, pc, call, model, nops, crashes, appended, aux>>

NextCodec ==
  \/ CodecEncode(1, CodecKeys)
  \/ CodecDecode(1)

SpecCodec == Init /\ [][NextCodec]_vars

\* ----------------------------------------------------------- value heap
\* Stores on a data.bin that is new, or that earlier stores have filled to
\* three bytes below 4 GiB.
MaxStores == 4
HeapBases == {Wide(0, 0), Wide(Limb - 1, Limb - 3)}
HeapValues == {<<>>, <<7>>, <<7, 8>>}

InitHeap ==
  /\ InitEngine
  /\ heapBase \in HeapBases

\* The stores made so far: the value, the file length before the write and
\* the Position returned.
Stored(t) == IF ret[t].op = "store" THEN ret[t].stored ELSE <<>>

\* DiskDataManager.Store
HeapStore(t, values) ==
  /\ up /\ pc[t] = "idle"
  /\ Len(Stored(t)) < MaxStores
  /\ \E v \in values :
       /\ heap' = heap \o v
       /\ ret' = [ret EXCEPT ![t] =
                    [op |-> "store", key |-> <<>>, err |-> "nil",
                     stored |-> Append(Stored(t),
                                       [value |-> v,
                                        before |-> HeapLength(heapBase, heap),
                                        pos |-> StoreAt(heapBase, heap, v)])]]
  /\ UNCHANGED <<mem, wal, files, up, pc, call, model, nops, crashes, appended, aux>>

NextHeap == HeapStore(1, HeapValues)

SpecHeap == InitHeap /\ [][NextHeap]_vars

\* --------------------------------------------------------- read failures
\* An SST file becomes unreadable past its header: every nthKey read of it
\* fails from then on.  The open SSTable keeps its metadata and filter.
SstDamaged ==
  /\ up /\ pc[1] = "idle"
  /\ \E path \in DOMAIN files :
       /\ files[path].Pairs # <<>>
       /\ files' = [files EXCEPT ![path].Pairs = <<>>]
  /\ UNCHANGED <<mem, wal, heap, up, pc, call, ret, model, nops, crashes,
                 appended, aux>>

\* One client thread that writes and reads; SST reads can fail.
NextRead ==
  \/ SetCall(1, Keys, NoFault)
  \/ SetFlush(1, NoFault)
  \/ SetClear(1)
  \/ SetCompact(1)
  \/ SetStore(1, NoFault)
  \/ SetMem(1)
  \/ DeleteCall(1, Keys, NoFault)
  \/ DeleteMem(1)
  \/ SstDamaged
  \/ GetCall(1, Keys)
  \/ GetMem(1)
  \/ GetTables(1)

SpecRead == Init /\ [][NextRead]_vars

\* The tables get(key) searches, in the order of the cascade: the raw SSTs,
\* then the levels whose key range holds the key.
RECURSIVE CascadeTables(_, _, _)
CascadeTables(raw, lvls, key) ==
  IF raw # <<>> THEN <<Head(raw)>> \o CascadeTables(Tail(raw), lvls, key)
  ELSE IF lvls = <<>> THEN <<>>
  ELSE IF StrLess(key, Head(lvls).MinKey) \/ StrLess(Head(lvls).MaxKey, key)
    THEN CascadeTables(raw, Tail(lvls), key)
  ELSE <<Head(lvls)>> \o CascadeTables(raw, Tail(lvls), key)

\* ----------------------------------------------------- SST serialization
\* An SSTable written by Serialize from a sorted pair list, searched through
\* the handle Serialize leaves or through one that Deserialize builds from
\* the file.  sum64 gives hashFunc.Sum64() of a padded key.
MaxPairs == 3
SstKeys == {KeyA, KeyAB, KeyB, FullKey}
SstPath == RawPath(1)

RECURSIVE SortKeys(_)
SortKeys(S) ==
  IF S = {} THEN <<>>
  ELSE LET m == CHOOSE x \in S : \A y \in S \ {x} : StrLess(x, y)
       IN <<m>> \o SortKeys(S \ {m})

\* boolArrayToBytes
boolArrayToBytesHighBitFirst(boolArray) ==
  [b \in 1..((Len(boolArray) + 7) \div 8) |->
     LET bits == {i \in 0..7 : 8 * (b - 1) + i < Len(boolArray)
                                /\ boolArray[8 * (b - 1) + i + 1]}
         pow[i \in -1..7] == IF i = -1 THEN 0
                             ELSE pow[i - 1] + (IF i \in bits THEN 2 ^ (7 - i) ELSE 0)
     IN pow[7]]

boolArrayToBytes(boolArray) ==
  [b \in 1..((Len(boolArray) + 7) \div 8) |->
     LET bits == {i \in 0..7 : 8 * (b - 1) + i < Len(boolArray)
                                /\ boolArray[8 * (b - 1) + i + 1]}
         pow[i \in -1..7] == IF i = -1 THEN 0
                             ELSE pow[i - 1] + (IF i \in bits THEN 2 ^ i ELSE 0)
     IN pow[7]]

\* bytesToBoolArray
bytesToBoolArray(byteArray, boolArrayLen) ==
  [i \in 1..boolArrayLen |->
     /\ (i - 1) \div 8 < Len(byteArray)
     /\ BitIsSet(byteArray[((i - 1) \div 8) + 1], (i - 1) % 8)]

\* BloomFilter.ToBytes
BloomToBytes(bf) ==
  PutUint32LE(bf.hashCount) \o PutUint32LE(Len(bf.bitArray))
    \o boolArrayToBytes(bf.bitArray)

\* BloomFilter.FromBytes
BloomFromBytes(data) ==
  LET hashCount   == Uint32LE(SubSeq(data, 1, 4))
      bitArrayLen == Uint32LE(SubSeq(data, 5, 8))
      bitArrayBytes == BufRead(SubSeq(data, 9, Len(data)), (bitArrayLen + 7) \div 8)
  IN [bitArray |-> bytesToBoolArray(bitArrayBytes, bitArrayLen),
      hashCount |-> hashCount]

\* SSTable.Serialize: the loop that feeds the filter, from pair i on.
RECURSIVE feedFilter(_, _, _, _)
feedFilter(bf, sum64, pairs, i) ==
  IF i > Len(pairs) THEN bf
  ELSE feedFilter(BloomAdd(bf, sum64, KeyToBytes(pairs[i].Key)), sum64, pairs, i + 1)

\* SSTable.Search with the filter of bf.go in place of the set of keys.
SearchBloom(fs, table, bf, sum64, key) ==
  IF \/ StrLess(key, table.MinKey)
     \/ StrLess(table.MaxKey, key)
     \/ ~BloomTest(bf, sum64, KeyToBytes(key))
  THEN [kind |-> "KeyNotFound", pos |-> ZeroPosition]
  ELSE bsearch(fs, table, key, 0, table.Size - 1)

\* EngineConfig.GetMetadataSize and GetKVPairSize
GetMetadataSize == KeySize * 2 + UintSize * 3 + 1
GetKVPairSize == KeySize + UintSize * 2

\* serializePairs, from pair i on.
RECURSIVE serializePairs(_, _)
serializePairs(pairs, i) ==
  IF i > Len(pairs) THEN <<>>
  ELSE KeyToBytes(pairs[i].Key) \o PutUint32LE(pairs[i].Value.Offset)
         \o PutUint32LE(pairs[i].Value.Size) \o serializePairs(pairs, i + 1)

\* serializeSSTable: NewSSTable, then Serialize of a sorted pair list; the
\* two Writes leave the position of the handle at the end of the file.
SstSerializeOf(keySets, positions, sums) ==
  /\ ~sst.made
  /\ \E S \in keySets :
       /\ S # {} /\ Cardinality(S) <= MaxPairs
       /\ \E value \in [S -> positions], sum64 \in sums :
            LET keys  == SortKeys(S)
                pairs == [i \in 1..Len(keys) |-> KVPair(keys[i], value[keys[i]])]
                file  == SSTFile(FALSE, 1, pairs)
                bf    == feedFilter(NewBloomFilter(Len(pairs), 1), sum64, pairs, 1)
            IN /\ files' = WriteFile(files, SstPath, file)
               /\ sst' = [made |-> TRUE, reopened |-> FALSE, pairs |-> pairs,
                          sum64 |-> sum64, table |-> SSTable(SstPath, file),
                          bf |-> bf, filterBytes |-> BloomToBytes(bf),
                          offset |-> GetMetadataSize + Len(BloomToBytes(bf))
                                       + Len(pairs) * GetKVPairSize]
  /\ UNCHANGED <<mem, wal, heap, up, pc, call, ret, model, nops, crashes,
                 appended, base, mu, flusher>>

SstSerialize ==
  SstSerializeOf(SUBSET SstKeys, MemPositions,
                 [{KeyToBytes(k) : k \in SstKeys} -> HashValues])

\* deserializeSSTable: NewSSTable, then Deserialize of the file, which reads
\* the metadata and the filter through the new handle.
SstDeserialize ==
  /\ sst.made /\ ~sst.reopened
  /\ sst' = [sst EXCEPT !.reopened = TRUE,
                        !.table = SSTable(SstPath, files[SstPath]),
                        !.bf = BloomFromBytes(sst.filterBytes),
                        !.offset = GetMetadataSize + Len(sst.filterBytes)]
  /\ UNCHANGED <<mem, disk, up, pc, call, ret, model, nops, crashes,
                 appended, base, mu, flusher>>

\* SSTable.Search
SstSearch(t, keys) ==
  /\ sst.made
  /\ \E key \in keys :
       ret' = [ret EXCEPT ![t] =
                 [op |-> "search", key |-> key, err |-> "none",
                  res |-> SearchBloom(files, sst.table, sst.bf, sst.sum64, key)]]
  /\ UNCHANGED <<mem, disk, up, pc, call, model, nops, crashes, appended, aux>>

NextSst ==
  \/ SstSerialize
  \/ SstDeserialize
  \/ SstSearch(1, SstKeys)

SpecSst == Init /\ [][NextSst]_vars

\* ------------------------------------------------------ WAL under threads
\* Two threads call Append, Retrieve and Clear on one DiskWAL.  A Write may
\* take more than one system call, and io.Copy more than one read.
MaxWalOps == 3
WalCritical == {"walWrite", "walCopy", "walCopyRest"}

\* sync.Mutex.Lock returns only when no thread holds the mutex.
CanLockAlways(holder) == TRUE
CanLock(holder) == holder = 0

\* DiskWAL.Append: Lock and the buffer of the record.
WalAppendLock(t, entries) ==
  /\ up /\ pc[t] = "idle" /\ nops < MaxWalOps
  /\ CanLock(mu.wal)
  /\ \E entry \in entries :
       call' = [call EXCEPT ![t] = [op |-> "append", key |-> entry.Key,
                                    value |-> entry.Value,
                                    buffer |-> WalRecordBytes(entry),
                                    written |-> 0]]
  /\ mu' = [mu EXCEPT !.wal = t]
  /\ pc' = [pc EXCEPT ![t] = "walWrite"]
  /\ nops' = nops + 1
  /\ UNCHANGED <<mem, disk, up, ret, model, crashes, appended, base, sst, flusher>>

\* DiskWAL.Append: one system call of w.writer.Write.  The first appends
\* some or all of the record, a second one the rest; after the last one
\* Append unlocks and returns.
WalAppendWrite(t) ==
  /\ up /\ pc[t] = "walWrite"
  /\ LET c    == call[t]
         left == Len(c.buffer) - c.written
     IN \E n \in IF c.written > 0 THEN {left}
                 ELSE {m \in {1, KeySize, left} : m <= left} :
          /\ wal' = wal \o SubSeq(c.buffer, c.written + 1, c.written + n)
          /\ IF n = left
             THEN /\ pc' = [pc EXCEPT ![t] = "idle"]
                  /\ mu' = [mu EXCEPT !.wal = 0]
                  /\ appended' = Append(appended, WALEntry(c.key, c.value))
                  /\ ret' = [ret EXCEPT ![t] = Ret(c, "nil")]
                  /\ call' = [call EXCEPT ![t] = NoCall]
             ELSE /\ call' = [call EXCEPT ![t].written = c.written + n]
                  /\ UNCHANGED <<pc, mu, appended, ret>>
  /\ UNCHANGED <<mem, heap, files, up, model, nops, crashes, base, sst, flusher>>

\* DiskWAL.Retrieve: Lock and os.Open.
WalRetrieveLock(t) ==
  /\ up /\ pc[t] = "idle" /\ nops < MaxWalOps
  /\ CanLock(mu.wal)
  /\ call' = [call EXCEPT ![t] = [op |-> "retrieve", key |-> <<>>, buf |-> <<>>,
                                  logged |-> appended]]
  /\ mu' = [mu EXCEPT !.wal = t]
  /\ pc' = [pc EXCEPT ![t] = "walCopy"]
  /\ nops' = nops + 1
  /\ UNCHANGED <<mem, disk, up, ret, model, crashes, appended, base, sst, flusher>>

\* DiskWAL.Retrieve: the first read of io.Copy.
WalRetrieveCopy(t) ==
  /\ up /\ pc[t] = "walCopy"
  /\ \E n \in {Len(wal), Min(KeySize, Len(wal))} :
       call' = [call EXCEPT ![t].buf = SubSeq(wal, 1, n)]
  /\ pc' = [pc EXCEPT ![t] = "walCopyRest"]
  /\ UNCHANGED <<mem, disk, up, ret, model, nops, crashes, appended, base, sst, mu, flusher>>

\* DiskWAL.Retrieve: the reads of io.Copy up to end of file, the parse of
\* the buffer, Unlock.
WalRetrieveParse(t) ==
  /\ up /\ pc[t] = "walCopyRest"
  /\ LET c   == call[t]
         buf == c.buf \o SubSeq(wal, Len(c.buf) + 1, Len(wal))
     IN ret' = [ret EXCEPT ![t] = [op |-> "retrieve", key |-> <<>>, err |-> "nil",
                                   read |-> buf, logged |-> c.logged,
                                   entries |-> WalRetrieve(buf)]]
  /\ call' = [call EXCEPT ![t] = NoCall]
  /\ mu' = [mu EXCEPT !.wal = 0]
  /\ pc' = [pc EXCEPT ![t] = "idle"]
  /\ UNCHANGED <<mem, disk, up, model, nops, crashes, appended, base, sst, flusher>>

\* DiskWAL.Clear: Lock, os.Truncate, Unlock.
WalClear(t) ==
  /\ up /\ pc[t] = "idle" /\ nops < MaxWalOps
  /\ CanLock(mu.wal)
  /\ wal' = <<>>
  /\ appended' = <<>>
  /\ ret' = [ret EXCEPT ![t] = [op |-> "clear", key |-> <<>>, err |-> "nil"]]
  /\ nops' = nops + 1
  /\ UNCHANGED <<mem, heap, files, up, pc, call, model, crashes, base, sst, mu, flusher>>

NextWal ==
  \E t \in Threads :
    \/ WalAppendLock(t, TornEntries)
    \/ WalAppendWrite(t)
    \/ WalRetrieveLock(t)
    \/ WalRetrieveCopy(t)
    \/ WalRetrieveParse(t)
    \/ WalClear(t)

SpecWal == Init /\ [][NextWal]_vars

\* The bytes successful appends of the entries leave in the file.
RECURSIVE WrittenBytes(_)
WrittenBytes(entries) ==
  IF entries = <<>> THEN <<>>
  ELSE WalRecordBytes(Head(entries)) \o WrittenBytes(Tail(entries))

\* ------------------------------------------------- value heap under threads
\* Two threads call Store on one DiskDataManager; thread 2 also calls
\* Retrieve with a Position a completed Store returned.
MaxDmOps == 4
DmValues == {<<7>>, <<8, 9>>}

\* DiskDataManager.Store: s.writer.Seek(0, io.SeekEnd)
DmStoreSeek(t, values) ==
  /\ up /\ pc[t] = "idle" /\ nops < MaxDmOps
  /\ \E v \in values :
       call' = [call EXCEPT ![t] = [op |-> "store", key |-> <<>>, value |-> v,
                                    offset |-> Len(heap)]]
  /\ pc' = [pc EXCEPT ![t] = "dmWrite"]
  /\ nops' = nops + 1
  /\ UNCHANGED <<mem, disk, up, ret, model, crashes, appended, aux>>

\* DiskDataManager.Store: s.writer.Write on the file opened with O_APPEND,
\* and the Position returned.
DmStoreWrite(t) ==
  /\ up /\ pc[t] = "dmWrite"
  /\ heap' = heap \o call[t].value
  /\ ret' = [ret EXCEPT ![t] =
               [op |-> "store", key |-> <<>>, err |-> "nil",
                value |-> call[t].value,
                pos |-> Position(U32(call[t].offset), U32(Len(call[t].value)))]]
  /\ call' = [call EXCEPT ![t] = NoCall]
  /\ pc' = [pc EXCEPT ![t] = "idle"]
  /\ UNCHANGED <<mem, wal, files, up, model, nops, crashes, appended, aux>>

\* DiskDataManager.Retrieve: the size test and s.reader.Seek
DmRetrieveSeek(t) ==
  /\ up /\ pc[t] = "idle" /\ nops < MaxDmOps
  /\ \E u \in Threads :
       /\ ret[u].op = "store"
       /\ IF ret[u].pos.Size = 0
          THEN /\ ret' = [ret EXCEPT ![t] = [op |-> "retrieve", key |-> <<>>,
                                             err |-> "KeyNotFound",
                                             pos |-> ret[u].pos, data |-> <<>>]]
               /\ UNCHANGED <<pc, call>>
          ELSE /\ call' = [call EXCEPT ![t] = [op |-> "retrieve", key |-> <<>>,
                                               pos |-> ret[u].pos]]
               /\ pc' = [pc EXCEPT ![t] = "dmRead"]
               /\ UNCHANGED ret
  /\ nops' = nops + 1
  /\ UNCHANGED <<mem, disk, up, model, crashes, appended, aux>>

\* DiskDataManager.Retrieve: s.reader.Read
DmRetrieveRead(t) ==
  /\ up /\ pc[t] = "dmRead"
  /\ LET r == Retrieve(heap, call[t].pos)
     IN ret' = [ret EXCEPT ![t] = [op |-> "retrieve", key |-> <<>>, err |-> r.kind,
                                   pos |-> call[t].pos, data |-> r.data]]
  /\ call' = [call EXCEPT ![t] = NoCall]
  /\ pc' = [pc EXCEPT ![t] = "idle"]
  /\ UNCHANGED <<mem, disk, up, model, nops, crashes, appended, aux>>

NextDm ==
  \/ \E t \in Threads : DmStoreSeek(t, DmValues) \/ DmStoreWrite(t)
  \/ DmRetrieveSeek(2)
  \/ DmRetrieveRead(2)

SpecDm == Init /\ [][NextDm]_vars

\* ------------------------------------------------- the background flusher
\* The IndexManager of index_manager.go: client threads call Set, Delete,
\* Get and Close; one goroutine runs backgroundFlusher.  The memtable is the
\* skip list (the memtable that has Reset).  flusher.latest holds, per key,
\* the Position of the last Set or Delete.
MaxImOps == 4
Flusher == 3
FlushingAt == {"items", "serialize", "reset"}

\* IndexManager.Set and IndexManager.Delete (a Set of the zero Position):
\* the memtable's own mutex is the only lock taken.
ImSet(t, keys, positions) ==
  /\ up /\ pc[t] = "idle" /\ ~flusher.closed /\ nops < MaxImOps
  /\ \E k \in keys, p \in positions :
     \E newLevel \in IF SkipContains(skiplist, k) THEN {1} ELSE 1..MaxRandomLevel :
       /\ skiplist' = SkipSet(skiplist, KVPair(k, p), newLevel)
       /\ flusher' = [flusher EXCEPT !.latest = MapPut(@, k, p)]
       /\ ret' = [ret EXCEPT ![t] = [op |-> "set", key |-> k, err |-> "nil"]]
  /\ nops' = nops + 1
  /\ UNCHANGED <<mem, disk, up, pc, call, model, crashes, appended,
                 lastSet, bloom, heapBase, sst, mu>>

\* A flush request: a send on the unbuffered channel flushRequested, made
\* when memtable.size() >= threshold; it completes when the flusher is in
\* its receive.
ImRequest(t) ==
  /\ up /\ pc[t] = "idle" /\ ~flusher.closed
  /\ SkipSize(skiplist) >= MemtableSizeThreshold
  /\ flusher.pc = "recv"
  /\ flusher' = [flusher EXCEPT !.pc = "lock", !.requests = @ + 1]
  /\ UNCHANGED <<mem, disk, up, pc, call, ret, model, nops, crashes, appended,
                 base, sst, mu>>

\* backgroundFlusher: im.mu.Lock()
FlusherLock ==
  /\ up /\ flusher.pc = "lock"
  /\ mu.latch = 0 /\ mu.readers = {}
  /\ mu' = [mu EXCEPT !.latch = Flusher]
  /\ flusher' = [flusher EXCEPT !.pc = "items"]
  /\ UNCHANGED <<mem, disk, up, pc, call, ret, model, nops, crashes, appended,
                 base, sst>>

\* flush: pairs := im.memtable.Items()
FlusherItems ==
  /\ up /\ flusher.pc = "items"
  /\ flusher' = [flusher EXCEPT !.pc = "serialize", !.pairs = SkipItems(skiplist)]
  /\ UNCHANGED <<mem, disk, up, pc, call, ret, model, nops, crashes, appended,
                 base, sst, mu>>

\* flush: serializeSSTable, the append to im.sstables, the sort, currSerial++
FlusherSerialize ==
  /\ up /\ flusher.pc = "serialize"
  /\ LET path == RawPath(currSerial)
         file == SSTFile(FALSE, currSerial, flusher.pairs)
     IN /\ files' = WriteFile(files, path, file)
        /\ sstables' = sortTablesBySerial(Append(sstables, SSTable(path, file)))
  /\ currSerial' = currSerial + 1
  /\ flusher' = [flusher EXCEPT !.pc = "reset"]
  /\ UNCHANGED <<memtable, levels, lvlSerial, wal, heap, up, pc, call, ret, model,
                 nops, crashes, appended, base, sst, mu>>

\* flush: im.memtable.Reset(); backgroundFlusher: im.mu.Unlock() and the
\* next receive.
FlusherReset ==
  /\ up /\ flusher.pc = "reset"
  /\ skiplist' = SkipReset(skiplist)
  /\ mu' = [mu EXCEPT !.latch = 0]
  /\ flusher' = [flusher EXCEPT !.pc = "recv", !.pairs = <<>>, !.flushes = @ + 1]
  /\ UNCHANGED <<mem, disk, up, pc, call, ret, model, nops, crashes, appended,
                 lastSet, bloom, heapBase, sst>>

\* IndexManager.Get on the skip list and the raw SSTs, as one lookup.
ImGet(sl, fs, tables, key) ==
  IF SkipContains(sl, key) THEN
    LET indexNode == SkipGet(sl, key) IN
    IF indexNode.Size = 0 THEN [kind |-> "KeyNotFound", pos |-> ZeroPosition]
    ELSE [kind |-> "ok", pos |-> indexNode]
  ELSE
    LET r == searchSSTables(fs, tables, 1, key) IN
    IF r.kind # "next" THEN r ELSE [kind |-> "KeyNotFound", pos |-> ZeroPosition]

\* IndexManager.Get: the memtable lookup, made before any latch is taken.
ImGetMem(t, keys) ==
  /\ up /\ pc[t] = "idle" /\ ~flusher.closed /\ nops < MaxImOps
  /\ \E k \in keys :
       IF SkipContains(skiplist, k)
       THEN /\ ret' = [ret EXCEPT ![t] =
                         [op |-> "get", key |-> k, err |-> "nil",
                          res |-> ImGet(skiplist, files, sstables, k)]]
            /\ UNCHANGED <<pc, call>>
       ELSE /\ call' = [call EXCEPT ![t] = [op |-> "get", key |-> k]]
            /\ pc' = [pc EXCEPT ![t] = "imRLock"]
            /\ UNCHANGED ret
  /\ nops' = nops + 1
  /\ UNCHANGED <<mem, disk, up, model, crashes, appended, base, sst, mu, flusher>>

\* IndexManager.Get: im.mu.RLock()
ImGetRLock(t) ==
  /\ up /\ pc[t] = "imRLock"
  /\ mu.latch = 0
  /\ mu' = [mu EXCEPT !.readers = @ \cup {t}]
  /\ pc' = [pc EXCEPT ![t] = "imSearch"]
  /\ UNCHANGED <<mem, disk, up, call, ret, model, nops, crashes, appended,
                 base, sst, flusher>>

\* IndexManager.Get: the loops over the tables, im.mu.RUnlock()
ImGetSearch(t) ==
  /\ up /\ pc[t] = "imSearch"
  /\ LET r == searchSSTables(files, sstables, 1, call[t].key)
     IN ret' = [ret EXCEPT ![t] =
                  [op |-> "get", key |-> call[t].key, err |-> "nil",
                   res |-> IF r.kind # "next" THEN r
                           ELSE [kind |-> "KeyNotFound", pos |-> ZeroPosition]]]
  /\ mu' = [mu EXCEPT !.readers = @ \ {t}]
  /\ call' = [call EXCEPT ![t] = NoCall]
  /\ pc' = [pc EXCEPT ![t] = "idle"]
  /\ UNCHANGED <<mem, disk, up, model, nops, crashes, appended, base, sst, flusher>>

\* IndexManager.Close: closes the tables and the levels.
ImClose(t) ==
  /\ up /\ pc[t] = "idle" /\ ~flusher.closed
  /\ flusher' = [flusher EXCEPT !.closed = TRUE]
  /\ ret' = [ret EXCEPT ![t] = [op |-> "close", key |-> <<>>, err |-> "nil"]]
  /\ UNCHANGED <<mem, disk, up, pc, call, model, nops, crashes, appended,
                 base, sst, mu>>

NextFlusher ==
  \/ \E t \in Threads :
       \/ ImSet(t, Keys, MemPositions)
       \/ ImRequest(t)
       \/ ImGetMem(t, Keys)
       \/ ImGetRLock(t)
       \/ ImGetSearch(t)
       \/ ImClose(t)
  \/ FlusherLock
  \/ FlusherItems
  \/ FlusherSerialize
  \/ FlusherReset

SpecFlusher == Init /\ [][NextFlusher]_vars

\* ------------------------------------------------- SST search under threads
\* Two threads run SSTable.Search on one SSTable, as IndexManager.Get lets
\* them under the read latch.  nthKey is a Seek and three Reads on s.file,
\* the one handle of the table; sst.offset is the position of that handle.
MaxSearches == 2
SearchKeys == {KeyA, KeyAB, KeyB}
SearchSums == {[b \in {KeyToBytes(k) : k \in SstKeys} |-> 3]}
SearchTables == {S \in SUBSET SearchKeys : Cardinality(S) <= 2}
SearchPositions == {ZeroPosition, Position(0, 1)}
SearchReading == {"sstReadKey", "sstReadOffset", "sstReadSize"}

\* The bytes of the file from absolute position from on, at most n of them.
SstFileBytes(from, n) ==
  LET data  == serializePairs(sst.pairs, 1)
      first == GetMetadataSize + Len(sst.filterBytes)
      rel   == from - first
  IN SubSeq(data, rel + 1, Min(rel + n, Len(data)))

\* The return of SSTable.Search and of the read latch.
SearchReturn(t, key, res) ==
  /\ ret' = [ret EXCEPT ![t] = [op |-> "search", key |-> key, err |-> "none",
                                res |-> res]]
  /\ call' = [call EXCEPT ![t] = NoCall]
  /\ pc' = [pc EXCEPT ![t] = "idle"]
  /\ mu' = [mu EXCEPT !.readers = @ \ {t}]

\* IndexManager.Get: im.mu.RLock(); SSTable.Search: the range and filter
\* test, and the bounds of the binary search.
SearchRange(t, keys) ==
  /\ sst.made /\ pc[t] = "idle" /\ nops < MaxSearches
  /\ mu.latch = 0
  /\ nops' = nops + 1
  /\ \E key \in keys :
       IF \/ StrLess(key, sst.table.MinKey)
          \/ StrLess(sst.table.MaxKey, key)
          \/ ~BloomTest(sst.bf, sst.sum64, KeyToBytes(key))
       THEN /\ ret' = [ret EXCEPT ![t] =
                         [op |-> "search", key |-> key, err |-> "none",
                          res |-> [kind |-> "KeyNotFound", pos |-> ZeroPosition]]]
            /\ UNCHANGED <<pc, call, mu>>
       ELSE /\ call' = [call EXCEPT ![t] =
                          [op |-> "search", key |-> key, left |-> 0,
                           right |-> sst.table.Size - 1, keyBuffer |-> <<>>,
                           offset |-> 0]]
            /\ pc' = [pc EXCEPT ![t] = "sstSeek"]
            /\ mu' = [mu EXCEPT !.readers = @ \cup {t}]
            /\ UNCHANGED ret
  /\ UNCHANGED <<mem, disk, up, model, crashes, appended, base, sst, flusher>>

\* SSTable.Search: the test of the loop; nthKey: s.file.Seek(position).
SearchSeek(t) ==
  /\ pc[t] = "sstSeek"
  /\ LET c == call[t] IN
     IF c.left > c.right
     THEN /\ SearchReturn(t, c.key, [kind |-> "KeyNotFound", pos |-> ZeroPosition])
          /\ UNCHANGED sst
     ELSE LET mid == c.left + ((c.right - c.left) \div 2) IN
          /\ sst' = [sst EXCEPT !.offset = GetMetadataSize + Len(sst.filterBytes)
                                             + mid * GetKVPairSize]
          /\ pc' = [pc EXCEPT ![t] = "sstReadKey"]
          /\ UNCHANGED <<call, ret, mu>>
  /\ UNCHANGED <<mem, disk, up, model, nops, crashes, appended, base, flusher>>

\* nthKey: one s.file.Read, of the key, the offset or the size; after the
\* last one SSTable.Search compares the pair with the key.
SearchRead(t) ==
  /\ pc[t] \in SearchReading
  /\ LET c    == call[t]
         n    == IF pc[t] = "sstReadKey" THEN KeySize ELSE UintSize
         got  == SstFileBytes(sst.offset, n)
         buf  == got \o Zeros(n - Len(got))
     IN
     IF got = <<>>
     THEN /\ SearchReturn(t, c.key, [kind |-> "error", pos |-> ZeroPosition])
          /\ UNCHANGED sst
     ELSE
       /\ sst' = [sst EXCEPT !.offset = @ + Len(got)]
       /\ IF pc[t] = "sstReadKey"
          THEN /\ call' = [call EXCEPT ![t].keyBuffer = buf]
               /\ pc' = [pc EXCEPT ![t] = "sstReadOffset"]
               /\ UNCHANGED <<ret, mu>>
          ELSE IF pc[t] = "sstReadOffset"
          THEN /\ call' = [call EXCEPT ![t].offset = Uint32LE(buf)]
               /\ pc' = [pc EXCEPT ![t] = "sstReadSize"]
               /\ UNCHANGED <<ret, mu>>
          ELSE
            LET pair == KVPair(TrimPaddedKey(c.keyBuffer),
                               Position(c.offset, Uint32LE(buf)))
                mid  == c.left + ((c.right - c.left) \div 2)
            IN
            IF StrLess(pair.Key, c.key)
            THEN /\ call' = [call EXCEPT ![t].left = mid + 1]
                 /\ pc' = [pc EXCEPT ![t] = "sstSeek"]
                 /\ UNCHANGED <<ret, mu>>
            ELSE IF StrLess(c.key, pair.Key)
            THEN /\ call' = [call EXCEPT ![t].right = mid - 1]
                 /\ pc' = [pc EXCEPT ![t] = "sstSeek"]
                 /\ UNCHANGED <<ret, mu>>
            ELSE IF pair.Value.Size = 0
            THEN SearchReturn(t, c.key, [kind |-> "KeyRemoved", pos |-> ZeroPosition])
            ELSE SearchReturn(t, c.key, [kind |-> "ok", pos |-> pair.Value])
  /\ UNCHANGED <<mem, disk, up, model, nops, crashes, appended, base, flusher>>

NextSearch ==
  \/ SstSerializeOf(SearchTables, SearchPositions, SearchSums)
  \/ \E t \in Threads :
       \/ SearchRange(t, SearchKeys)
       \/ SearchSeek(t)
       \/ SearchRead(t)

SpecSearch == Init /\ [][NextSearch]_vars

\* ------------------------------------------------- crashes during recovery
\* NewEngine, entry by entry: parseHomeDir, wal.Retrieve, then one Set or
\* Delete per entry of the map, in the order the map yields them.  The
\* process can stop between two entries.  call[1].before is the directory
\* NewEngine started from.
RecoverKeys == {KeyA, KeyAB, KeyB}

\* NewIndexManager, NewDiskDataManager, NewDiskWAL; wal.Retrieve.
RecoverBegin ==
  /\ ~up /\ pc[1] = "idle"
  /\ LET im == parseHomeDir(files)
         entries == WalRetrieve(wal)
     IN /\ memtable' = NewAVLMemtable
        /\ sstables' = im.sstables
        /\ levels' = im.levels
        /\ currSerial' = im.currSerial
        /\ lvlSerial' = im.lvlSerial
        /\ call' = [call EXCEPT ![1] =
                      [op |-> "open", key |-> <<>>, entries |-> entries,
                       todo |-> DOMAIN entries,
                       before |-> [wal |-> wal, heap |-> heap, files |-> files]]]
  /\ pc' = [pc EXCEPT ![1] = "replay"]
  /\ UNCHANGED <<disk, up, ret, model, nops, crashes, appended, aux>>

\* setEntriesFromWAL: one turn of the loop, a Set or a Delete that skips
\* the WAL append and runs the threshold flush and wal.Clear like any other.
RecoverEntry ==
  /\ ~up /\ pc[1] = "replay"
  /\ LET c == call[1] IN
     \E k \in c.todo :
       \E st \in IF Len(c.entries[k]) > 0
                 THEN EngineSet(St, k, c.entries[k], TRUE)
                 ELSE {EngineDelete(St, k, TRUE)} :
         /\ Install(st)
         /\ appended' = IF st.wal = wal THEN appended ELSE <<>>
         /\ call' = [call EXCEPT ![1].todo = @ \ {k}]
  /\ UNCHANGED <<up, pc, ret, model, nops, crashes, aux>>

\* setEntriesFromWAL returns nil and NewEngine returns the engine.
RecoverReturn ==
  /\ ~up /\ pc[1] = "replay" /\ call[1].todo = {}
  /\ up' = TRUE
  /\ pc' = [pc EXCEPT ![1] = "idle"]
  /\ call' = [call EXCEPT ![1] = NoCall]
  /\ UNCHANGED <<mem, disk, ret, model, nops, crashes, appended, aux>>

\* The process stops inside NewEngine.
RecoverCrash ==
  /\ ~up /\ pc[1] = "replay" /\ crashes <= MaxCrashes
  /\ memtable' = NewAVLMemtable
  /\ sstables' = <<>>
  /\ levels' = <<>>
  /\ currSerial' = 1
  /\ lvlSerial' = 1
  /\ pc' = [pc EXCEPT ![1] = "idle"]
  /\ call' = [call EXCEPT ![1] = NoCall]
  /\ crashes' = crashes + 1
  /\ UNCHANGED <<disk, up, ret, model, nops, appended, aux>>

NextRecover ==
  \/ SetCall(1, RecoverKeys, NoFault)
  \/ SetFlush(1, NoFault)
  \/ SetClear(1)
  \/ SetCompact(1)
  \/ SetStore(1, NoFault)
  \/ SetMem(1)
  \/ Crash
  \/ RecoverBegin
  \/ RecoverEntry
  \/ RecoverReturn
  \/ RecoverCrash

SpecRecover == Init /\ [][NextRecover]_vars

\* ------------------------------------------------------------ empty values
\* One client thread whose Set calls carry the empty value or the one byte n.
NextEmpty ==
  \/ SetCallWith(1, Keys, {<<>>, ValueOf(nops + 1)}, NoFault)
  \/ SetFlush(1, NoFault)
  \/ SetClear(1)
  \/ SetCompact(1)
  \/ SetStore(1, NoFault)
  \/ SetMem(1)

SpecEmpty == Init /\ [][NextEmpty]_vars

\* ------------------------------------------------------------- claims
\* C1: on an engine that has not crashed, whenever no call is running,
\* get(k) returns for every key k the value of the most recent acknowledged
\* set(k, v) not followed by an acknowledged delete(k), and KeyNotFound when
\* there is none.
C1_GetReturnsLatestWrite ==
  (Idle /\ crashes = 0) => \A k \in Keys : EngineGet(St, k) = model[k]

\* C2: durability.  Once set(k, v) has returned nil and no other call has
\* run since, a crash followed by NewEngine on the same directory gives
\* get(k) = v, whatever the call did on its way (threshold flush, WAL clear).
C2_AcknowledgedSetSurvivesCrash ==
  (Idle /\ ret[1].op = "set" /\ ret[1].err = "nil") =>
    \A o \in NewEngine(wal, heap, files) :
      EngineGet(o, ret[1].key) = model[ret[1].key]

\* C3: tombstone shadowing.  For every key k, when the newest container
\* holding a record for k (the memtable, then the raw SSTs in list order,
\* then the level SSTs in list order) holds a tombstone (Size = 0), get(k)
\* returns KeyNotFound.
C3_TombstoneShadowsOlderData ==
  up => \A k \in Keys :
    LET items   == MemItems(memtable)
        inMem   == {i \in DOMAIN items : items[i].Key = k}
        tables  == sstables \o levels
        pairs(i) == files[tables[i].Path].Pairs
        at(i)    == {j \in DOMAIN pairs(i) : pairs(i)[j].Key = k}
        holders == {i \in DOMAIN tables : at(i) # {}}
        first   == CHOOSE i \in holders : \A j \in holders : i <= j
        newestIsTombstone ==
          IF inMem # {} THEN \A i \in inMem : items[i].Value.Size = 0
          ELSE /\ holders # {}
               /\ \A j \in at(first) : pairs(first)[j].Value.Size = 0
    IN newestIsTombstone => EngineGet(St, k).kind = "KeyNotFound"

\* C4: compaction preserves the visible state.  On an engine that has not
\* crashed, across every step in which CompactionCheck merges the raw SSTs
\* into a level, get(k) is the same before and after, for every key k.
C4_CompactionPreservesView ==
  [][(pc[1] = "setCompact" /\ pc'[1] = "setStore" /\ crashes = 0
      /\ Len(sstables) > CompactionThreshold)
       => View(St)' = View(St)]_vars

\* C5: flush preserves the visible state.  On an engine that has not
\* crashed, across every successful flush get(k) is the same before and
\* after, for every key k.
C5_FlushPreservesView ==
  [][(pc[1] = "setCheck" /\ pc'[1] = "setClear" /\ crashes = 0
      /\ call'[1].flushErr = "nil")
       => View(St)' = View(St)]_vars

\* C6: serial monotonicity.  Every flush takes a serial that is at least 1
\* and strictly greater than the serial of every raw SST in the list, and
\* writes to a path no file has yet; every compaction takes a level serial
\* that is at least 1 and strictly greater than that of every level SST --
\* also after the lists were loaded by NewEngine.
C6_SerialMonotonicity ==
  [][/\ (pc[1] = "setCheck" /\ pc'[1] = "setClear")
          => /\ currSerial >= 1
             /\ \A i \in DOMAIN sstables : currSerial > sstables[i].Serial
             /\ RawPath(currSerial) \notin DOMAIN files
     /\ (pc[1] = "setCompact" /\ pc'[1] = "setStore"
         /\ Len(sstables) > CompactionThreshold)
          => /\ lvlSerial >= 1
             /\ \A i \in DOMAIN levels : lvlSerial > levels[i].Serial
    ]_vars

\* C7: a failed flush is side-effect free.  When Flush returns an error,
\* the memtable, the WAL, the raw-SST list and currSerial are what they were
\* before it, and the WAL is not cleared after it either.
C7_FlushFailureHasNoSideEffect ==
  [][/\ (pc[1] = "setCheck" /\ pc'[1] = "setClear"
         /\ call'[1].flushErr # "nil")
          => /\ memtable' = memtable
             /\ wal' = wal
             /\ sstables' = sstables
             /\ currSerial' = currSerial
     /\ (pc[1] = "setClear" /\ call[1].flushErr # "nil") => wal' = wal
    ]_vars

\* C8: mutation atomicity under failure.  When set or delete returns an
\* error, get(k) is for every key what it was when the call started, and
\* the states a crash and NewEngine can lead to give the same get results
\* as those they could lead to when the call started.
C8_FailedMutationLeavesNoTrace ==
  [][(pc[1] # "idle" /\ pc'[1] = "idle" /\ ret'[1].err # "nil")
       => LET before == call[1].before
              after  == St'
          IN /\ View(after) = View(before)
             /\ {View(o) : o \in NewEngine(after.wal, after.heap, after.files)}
                  = {View(o) : o \in NewEngine(before.wal, before.heap,
                                              before.files)}
    ]_vars

\* C9: WAL before memtable.  A record enters the memtable only in the last
\* step of a call whose wal.Append returned nil; and a call whose
\* wal.Append returned an error has changed neither the value heap nor the
\* memtable, and returns that error as its next step.
C9_WalAppendBeforeMemtable ==
  [][/\ (memtable' # memtable /\ memtable' # NewAVLMemtable)
          => /\ pc[1] \in {"setMem", "delMem"}
             /\ call[1].walErr = "nil"
             /\ MemGet(memtable', call[1].key) = call[1].pos
     /\ (call[1].op # "none" /\ call[1].walErr # "nil")
          => /\ heap = call[1].before.heap
             /\ memtable = call[1].before.memtable
             /\ pc'[1] = "idle"
             /\ ret'[1] = Ret(call[1], call[1].walErr)
             /\ heap' = heap
             /\ memtable' = memtable
    ]_vars

\* C9 witness: a set whose wal.Append failed has returned Io on an engine
\* that already holds records in the memtable and values in the heap.
C9_Witness ==
  /\ pc[1] = "idle"
  /\ ret[1].op = "set" /\ ret[1].err = "Io"
  /\ MemSize(memtable) > 0
  /\ heap # <<>>

\* C10: single-key linearizability.  The records of one key are applied to
\* the memtable in the order of their WAL appends: when a call applies its
\* record, no other call on the same key whose WAL append came earlier has
\* still to apply its own.
C10_WalOrderIsApplyOrder ==
  [][\A t \in Threads, u \in Threads :
       (pc[t] \in {"setMem", "delMem"} /\ pc'[t] = "idle"
        /\ u # t /\ pc[u] # "idle" /\ call[u].key = call[t].key)
         => call[u].n > call[t].n
    ]_vars

\* C11: flush is atomic to readers.  A get(k) that begins after the writer's
\* call has begun and returns before that call is past its flush and WAL
\* clear, for a key k that get found live when the call began, returns that
\* same value: it never sees the memtable reset while the new SST is not
\* yet in the list.
C11_FlushAtomicToReaders ==
  [][(/\ pc[2] \in {"getMem", "getTables"} /\ pc'[2] = "idle"
      /\ pc[1] \in {"setCheck", "flushInstall", "setClear"}
      /\ needsFlush(call[1].before)
      /\ call[2].n = call[1].n
      /\ EngineGet(call[1].before, call[2].key).kind = "ok")
       => /\ ret'[2].err = "ok"
          /\ ret'[2].data = EngineGet(call[1].before, call[2].key).data
    ]_vars

\* C12: key-size rejection.  Set, Delete and Get called with a key longer
\* than KeySize return KeyTooLong and leave the WAL, the value heap, the
\* memtable, the SST files and the SST lists as they were; and no call
\* returns KeyTooLong for a key of at most KeySize bytes.
C12_KeyTooLongRejected ==
  [][/\ (pc[1] = "idle" /\ pc'[1] # "idle" /\ Len(call'[1].key) > KeySize)
          => /\ call'[1].walErr = "KeyTooLong"
             /\ pc'[1] = "appendFailed"
             /\ mem' = mem /\ disk' = disk
     /\ (pc[1] = "appendFailed" /\ Len(call[1].key) > KeySize)
          => /\ ret'[1] = Ret(call[1], "KeyTooLong")
             /\ pc'[1] = "idle"
             /\ mem' = mem /\ disk' = disk
     /\ (ret'[1] # ret[1] /\ ret'[1].op = "get" /\ Len(ret'[1].key) > KeySize)
          => /\ ret'[1].err = "KeyTooLong"
             /\ pc[1] = "idle" /\ pc'[1] = "idle"
             /\ mem' = mem /\ disk' = disk
     /\ (ret'[1] # ret[1] /\ ret'[1].err = "KeyTooLong")
          => Len(ret'[1].key) > KeySize
     /\ (pc[1] = "idle" /\ pc'[1] # "idle" /\ Len(call'[1].key) <= KeySize)
          => call'[1].walErr # "KeyTooLong"
    ]_vars

\* C12 witness: set with the key of KeySize + 1 bytes has returned
\* KeyTooLong on an engine holding a raw SST, a memtable record under the
\* key of exactly KeySize bytes, and values in the heap.
C12_Witness ==
  /\ pc[1] = "idle"
  /\ ret[1] = [op |-> "set", key |-> LongKey, err |-> "KeyTooLong"]
  /\ sstables # <<>>
  /\ MemGet(memtable, FullKey).Size # 0
  /\ heap # <<>>

\* C13: Scan(p), when it returns no error, returns without duplicates
\* exactly the keys that start with p among: the union of Keys() of all raw
\* and level SSTs, plus every key whose memtable record is live, minus every
\* key whose memtable record is a tombstone; with the empty p that whole set.
C13_ScanReturnsPrefixedKeys ==
  [][(pc[1] = "scanKeys" /\ pc'[1] = "idle" /\ ret'[1].err = "nil")
       => LET p      == call[1].key
              out    == ret'[1].data
              tables == sstables \o levels
              items  == MemItems(memtable)
              onDisk == UNION {SSTKeys(files, tables[i]) : i \in DOMAIN tables}
              live   == {items[j].Key : j \in {i \in DOMAIN items :
                                                 items[i].Value.Size # 0}}
              dead   == {items[j].Key : j \in {i \in DOMAIN items :
                                                 items[i].Value.Size = 0}}
              whole  == (onDisk \cup live) \ dead
          IN /\ \A i \in DOMAIN out, j \in DOMAIN out : out[i] = out[j] => i = j
             /\ {out[i] : i \in DOMAIN out} = {k \in whole : HasPrefix(k, p)}
             /\ p = <<>> => {out[i] : i \in DOMAIN out} = whole
    ]_vars

\* C13 witness: Scan of the prefix KeyA has returned KeyAB alone while a raw
\* SST holds KeyA and KeyAB live, and the memtable holds KeyB live and a
\* tombstone for KeyA.
C13_Witness ==
  /\ pc[1] = "idle"
  /\ ret[1] = [op |-> "scan", key |-> KeyA, err |-> "nil", data |-> <<KeyAB>>]
  /\ \E i \in DOMAIN sstables : SSTKeys(files, sstables[i]) = {KeyA, KeyAB}
  /\ MemGet(memtable, KeyB).Size # 0
  /\ \E i \in DOMAIN MemItems(memtable) :
       MemItems(memtable)[i] = KVPair(KeyA, ZeroPosition)

\* C14: post-condition of a successful flush.  When Flush has returned nil
\* and Engine.Set has cleared the WAL after it, the memtable is empty, the
\* WAL has length zero, currSerial has advanced by one, and the raw-SST list
\* is the list the flush started from plus exactly one SST, not a level,
\* with the serial the flush started from, whose pairs are exactly the
\* records, tombstones included, the memtable held when the flush started.
C14_FlushPostCondition ==
  [][(pc[1] = "setClear" /\ pc'[1] = "setCompact" /\ call[1].flushErr = "nil")
       => LET before == call[1].before IN
          /\ MemItems(memtable') = <<>> /\ MemSize(memtable') = 0
          /\ Len(wal') = 0
          /\ currSerial' = before.currSerial + 1
          /\ Len(sstables') = Len(before.sstables) + 1
          /\ \E i \in DOMAIN sstables' :
               /\ [j \in 1..Len(before.sstables) |->
                     IF j < i THEN sstables'[j] ELSE sstables'[j + 1]]
                    = before.sstables
               /\ ~sstables'[i].IsLevel
               /\ sstables'[i].Serial = before.currSerial
               /\ ItemsOk(files', sstables'[i])
               /\ Items(files', sstables'[i]) = MemItems(before.memtable)
    ]_vars

\* C14 witness: a flush that started from a memtable holding a live record
\* and a tombstone, with a raw SST already in the list, has succeeded and
\* the WAL has been cleared.
C14_Witness ==
  /\ pc[1] = "setCompact" /\ call[1].flushErr = "nil"
  /\ Len(call[1].before.sstables) >= 1
  /\ \E i, j \in DOMAIN MemItems(call[1].before.memtable) :
       /\ MemItems(call[1].before.memtable)[i].Value.Size = 0
       /\ MemItems(call[1].before.memtable)[j].Value.Size # 0

\* C15: SST well-formedness.  Every SST file written by Flush or by
\* createLevel holds each key at most once, in strictly ascending key order;
\* its Size is the number of pairs written, its MinKey is the key of the
\* first pair and its MaxKey the key of the last.
C15_SSTWellFormed ==
  \A p \in DOMAIN files :
    files[p].valid =>
      LET f == files[p] IN
      /\ f.Size = Len(f.Pairs)
      /\ \A i \in DOMAIN f.Pairs, j \in DOMAIN f.Pairs :
           i < j => StrLess(f.Pairs[i].Key, f.Pairs[j].Key)
      /\ Len(f.Pairs) > 0 => /\ f.MinKey = f.Pairs[1].Key
                             /\ f.MaxKey = f.Pairs[Len(f.Pairs)].Key

\* C16: result of a successful compaction.  On an engine that has not
\* crashed, when CompactionCheck merges the raw SSTs, the raw-SST list
\* becomes empty and the file of every raw SST is removed, exactly one level
\* SST with the next level serial is added, and that level holds, for every
\* key present in a merged raw SST, exactly the record (tombstones kept) of
\* the highest-serial raw SST containing the key, and nothing else.
C16_CompactionResult ==
  [][(pc[1] = "setCompact" /\ pc'[1] = "setStore" /\ crashes = 0
      /\ Len(sstables) > CompactionThreshold)
       => LET pairsOf(i) == files[sstables[i].Path].Pairs
              keysOf(i)  == {pairsOf(i)[j].Key : j \in DOMAIN pairsOf(i)}
              merged     == UNION {keysOf(i) : i \in DOMAIN sstables}
              newest(k)  ==
                CHOOSE i \in DOMAIN sstables :
                  /\ k \in keysOf(i)
                  /\ \A j \in DOMAIN sstables :
                       k \in keysOf(j) => sstables[j].Serial <= sstables[i].Serial
              record(k)  ==
                CHOOSE r \in {pairsOf(newest(k))[j] : j \in DOMAIN pairsOf(newest(k))} :
                  r.Key = k
              added      == {i \in DOMAIN levels' :
                               \A j \in DOMAIN levels : levels[j] # levels'[i]}
          IN /\ sstables' = <<>>
             /\ \A i \in DOMAIN sstables : sstables[i].Path \notin DOMAIN files'
             /\ Len(levels') = Len(levels) + 1
             /\ Cardinality(added) = 1
             /\ \A i \in added :
                  /\ levels'[i].IsLevel
                  /\ levels'[i].Serial = lvlSerial
                  /\ levels'[i].Path \in DOMAIN files'
                  /\ LET out == files'[levels'[i].Path].Pairs
                     IN /\ Len(out) = Cardinality(merged)
                        /\ {out[j] : j \in DOMAIN out} = {record(k) : k \in merged}
    ]_vars

\* C17: a failed compaction is side-effect free for the raw SSTs.  When
\* createLevel returns an error (the raw SSTs cannot be read, or the level
\* file cannot be created, written or opened), the raw-SST list and the
\* level list are unchanged, lvlSerial is not advanced and the file of every
\* raw SST is on disk with the content it had.
C17_CompactionFailureKeepsRawSSTs ==
  [][(pc[1] = "setCompact" /\ pc'[1] = "panic")
       => /\ sstables' = sstables
          /\ levels' = levels
          /\ lvlSerial' = lvlSerial
          /\ \A i \in DOMAIN sstables :
               /\ sstables[i].Path \in DOMAIN files'
               /\ files'[sstables[i].Path] = files[sstables[i].Path]
    ]_vars

\* C17 witness: createLevel has failed after creating the level file, with
\* more raw SSTs in the list than the threshold.
C17_Witness ==
  /\ pc[1] = "panic"
  /\ Len(sstables) > CompactionThreshold
  /\ LevelPath(lvlSerial) \in DOMAIN files
  /\ \A i \in DOMAIN sstables : sstables[i].Path \in DOMAIN files

LastWriterWins(entries) ==
  [k \in {entries[i].Key : i \in DOMAIN entries} |->
     LET last == CHOOSE i \in DOMAIN entries :
                   /\ entries[i].Key = k
                   /\ \A j \in DOMAIN entries : entries[j].Key = k => j <= i
     IN entries[last].Value]

\* C19: recovery replay.  NewEngine leaves the WAL file as it found it, and
\* when it returns, get(k) gives for every key k appended to the WAL since
\* the last clear the value of the last entry of k, KeyNotFound when that
\* entry is a delete (empty value).
C19_ReplayAppliesTheLog ==
  [][(~up /\ up')
       => /\ wal' = wal
          /\ \A k \in DOMAIN LastWriterWins(appended) :
               EngineGet(St', k) =
                 IF LastWriterWins(appended)[k] = <<>> THEN NotFound
                 ELSE Found(LastWriterWins(appended)[k])
    ]_vars

\* The bytes of a WAL holding the given entries: per record the padded
\* key, the value length as a little-endian uint32, the value bytes.
RECURSIVE RecordBytes(_)
RecordBytes(entries) ==
  IF entries = <<>> THEN <<>>
  ELSE KeyToBytes(Head(entries).Key) \o PutUint32LE(Len(Head(entries).Value))
         \o Head(entries).Value \o RecordBytes(Tail(entries))

\* C20: WAL append / replay round trip.  After any sequence of successful
\* wal.Append calls since the last wal.Clear, the file holds one record per
\* call (padded key, value length as uint32, value bytes) and Retrieve
\* returns exactly one entry per distinct key appended, with the value of
\* the last append for that key (empty for a delete).
C20_WalRoundTrip ==
  /\ wal = RecordBytes(appended)
  /\ WalRetrieve(wal) = LastWriterWins(appended)

\* C21: torn WAL tail.  When the WAL file ends inside a record (the write
\* of its last record was cut short at any byte), Retrieve reports no error
\* and returns exactly the entries of the complete records before it, and
\* no entry for the partial record.
C21_TornTailIgnored ==
  pc[1] = "tornRead"
    => /\ ret[1].err = "nil"
       /\ ret[1].entries = LastWriterWins(appended)

\* C22: the memtable is an ordered map.  After any sequence of set calls,
\* on either implementation, get(k) returns the Position of the last
\* set(k, _) and Position{0,0} for a key never set, and items() returns
\* exactly one pair per key set, carrying that last Position, in strictly
\* ascending key order.
C22_MemtableOrderedMap ==
  /\ \A k \in MemKeys :
       LET want == IF k \in DOMAIN lastSet THEN lastSet[k] ELSE ZeroPosition
       IN /\ MemGet(memtable, k) = want
          /\ SkipGet(skiplist, k) = want
  /\ OrderedItemsOf(MemItems(memtable), lastSet)
  /\ OrderedItemsOf(SkipItems(skiplist), lastSet)

\* Three keys are held, one of them set again with another Position, the
\* AVL tree is two nodes high and the skip list has two levels.
C22_Witness ==
  /\ Cardinality(DOMAIN lastSet) = 3
  /\ nops > 3
  /\ memtable.root.height = 2
  /\ skiplist.level = 2
  /\ \E k \in DOMAIN lastSet : lastSet[k] = Position(1, 1)
  /\ \E k \in DOMAIN lastSet : lastSet[k] = ZeroPosition

\* C23: contains(k) is true exactly when a record for k exists in the
\* memtable, a tombstone (Position with size 0) included, and false for a
\* key never set since the last reset; for the AVL and for the skip-list
\* implementation.
C23_ContainsIffRecord ==
  \A k \in MemKeys :
    /\ MemContains(memtable, k) = (k \in DOMAIN lastSet)
    /\ SkipContains(skiplist, k) = (k \in DOMAIN lastSet)

\* C24: memtable size.  After any sequence of set (live or tombstone
\* positions) and reset calls, size() equals the number of distinct keys
\* returned by items(); a repeated set on an existing key, tombstone
\* included, leaves it so, and after reset() size() is 0 and items() empty.
C24_SizeCountsKeys ==
  /\ MemSize(memtable) = Cardinality({MemItems(memtable)[i].Key : i \in DOMAIN MemItems(memtable)})
  /\ SkipSize(skiplist) = Cardinality({SkipItems(skiplist)[i].Key : i \in DOMAIN SkipItems(skiplist)})
  /\ lastSet = EmptyMap
       => /\ MemSize(memtable) = 0 /\ MemItems(memtable) = <<>>
          /\ SkipSize(skiplist) = 0 /\ SkipItems(skiplist) = <<>>

\* C25: the two memtable implementations are interchangeable.  After every
\* sequence of set and reset calls, get and contains of every key, items and
\* size return the same on the AVL memtable and on the skip-list memtable.
C25_ImplementationsAgree ==
  /\ \A k \in MemKeys :
       /\ MemGet(memtable, k) = SkipGet(skiplist, k)
       /\ MemContains(memtable, k) = SkipContains(skiplist, k)
  /\ MemItems(memtable) = SkipItems(skiplist)
  /\ MemSize(memtable) = SkipSize(skiplist)

\* C26: the Bloom filter has no false negatives.  For a filter built for any
\* n >= 1 and false-positive rate p, a freshly created filter answers
\* test(k) = false, after add(k) test(k) = true and stays true after any
\* further adds of other keys, and every bit index computed by add and test
\* lies inside the bit array.
C26_BloomNoFalseNegatives ==
  bloom.made =>
    /\ \A key \in FilterKeys :
         /\ bloom.added = {}
              => /\ ~FilterPossiblyExists(bloom.filter, bloom.hash, key)
                 /\ ~BloomTest(bloom.bf, bloom.sum64, key)
         /\ key \in bloom.added
              => /\ FilterPossiblyExists(bloom.filter, bloom.hash, key)
                 /\ BloomTest(bloom.bf, bloom.sum64, key)
         /\ \A i \in 0..(bloom.filter.k - 1) :
              FilterIndex(bloom.filter, bloom.hash, key, i) \div 8 < Len(bloom.filter.Bitset)
         /\ bloom.bf.hashCount > 0
              => bloom.sum64[key] % Len(bloom.bf.bitArray) < Len(bloom.bf.bitArray)
    /\ bloom.filter.k <= MaxHashFuncs

\* C27: Close performs a final flush.  When close() is called with a
\* non-empty memtable, after it returns every record the memtable held is in
\* a raw SST on disk; every SST and the value heap are closed, and the first
\* error encountered is returned.
C27_CloseFlushes ==
  pc[1] = "closed" =>
    LET held == MemItems(call[1].before.memtable) IN
    /\ \A i \in DOMAIN held :
         \E j \in DOMAIN sstables :
           /\ ~sstables[j].IsLevel
           /\ sstables[j].Path \in DOMAIN files
           /\ \E n \in DOMAIN files[sstables[j].Path].Pairs :
                files[sstables[j].Path].Pairs[n] =
                  KVPair(DiskKey(held[i].Key), held[i].Value)
    /\ call[1].flushErr = "none"
         => /\ ret[1].err = "nil"
            /\ ret[1].closed = engineClose(St, "none").closed
    /\ call[1].flushErr = "table" => ret[1].err = "error"

\* C28: key codec round trip.  For every key k of length 1..KeySize that
\* does not end in 0x00, decode(encode(k)) = k and encode(k) has exactly
\* KeySize bytes; for every padded key p produced by encode,
\* encode(decode(p)) = p; and encode preserves order: k1 < k2 implies
\* encode(k1) < encode(k2) for keys without 0x00.
C28_KeyCodecRoundTrip ==
  ret[1].op = "decode" =>
    LET k1 == ret[1].key
        k2 == ret[1].other
    IN /\ k1[Len(k1)] # 0
            => /\ ret[1].decoded = k1
               /\ Len(ret[1].padded) = KeySize
               /\ ret[1].err = "nil" /\ ret[1].sized = ret[1].padded
       /\ ret[1].again = ret[1].padded
       /\ ((\A i \in DOMAIN k1 : k1[i] # 0) /\ (\A i \in DOMAIN k2 : k2[i] # 0)
             /\ StrLess(k1, k2))
            => StrLess(ret[1].padded, ret[1].paddedOther)

\* A key that is a proper prefix of the other key has been encoded and
\* decoded.
C28_Witness ==
  /\ ret[1].op = "decode"
  /\ ret[1].key = <<1, 2>>
  /\ ret[1].other = <<1, 2, 1>>
  /\ ret[1].decoded = <<1, 2>>

\* C29: value-heap positions stay valid.  For any sequence of store calls,
\* store(v) returns Position(offset = heap length before the write,
\* size = len(v)), and for every non-empty v retrieve of that position
\* returns v at any later time, after any number of further stores;
\* retrieve of a position with size 0 fails with KeyNotFound.
C29_HeapPositionsStayValid ==
  \A i \in DOMAIN Stored(1) :
    LET s == Stored(1)[i] IN
    /\ s.pos = Position(s.before, Len(s.value))
    /\ RetrieveAt(heapBase, heap, s.pos) =
         IF s.value = <<>> THEN [kind |-> "KeyNotFound", data |-> <<>>]
         ELSE [kind |-> "ok", data |-> s.value]

\* C30: the read cascade does not swallow I/O errors.  If the search of a
\* raw SST or of a level SST during get(k) fails with an error other than
\* KeyNotFound or KeyRemoved, get(k) returns an error for that call: it does
\* not continue to older containers and does not report KeyNotFound.
C30_ReadErrorsNotSwallowed ==
  [][(pc[1] = "getTables" /\ pc'[1] = "idle")
       => LET tables == CascadeTables(sstables, levels, call[1].key)
              res == [i \in DOMAIN tables |-> Search(files, tables[i], call[1].key)]
          IN \A i \in DOMAIN tables :
               (/\ res[i].kind = "error"
                /\ \A j \in 1..(i - 1) : res[j].kind = "KeyNotFound")
                 => ret'[1].err = "error"
    ]_vars

\* The record of key in a pair list, if any.
PairOf(pairs, key) ==
  LET at == {i \in DOMAIN pairs : pairs[i].Key = key}
  IN IF at = {} THEN [held |-> FALSE, pos |-> ZeroPosition]
     ELSE [held |-> TRUE, pos |-> pairs[CHOOSE i \in at : TRUE].Value]

\* C31: SST search is exact.  For an SST written from a sorted pair list and
\* any key, search(key) returns the stored position iff the key is in the
\* pair array with size > 0, KeyRemoved iff it is there with size 0, and
\* KeyNotFound iff it is absent; the min/max range test and the filter test
\* never reject a key of the pair array, whether the handle is the one
\* Serialize left or one rebuilt by Deserialize.
C31_SstSearchExact ==
  ret[1].op = "search" =>
    LET key  == ret[1].key
        rec  == PairOf(sst.pairs, key)
        want == IF ~rec.held THEN [kind |-> "KeyNotFound", pos |-> ZeroPosition]
                ELSE IF rec.pos.Size = 0 THEN [kind |-> "KeyRemoved", pos |-> ZeroPosition]
                ELSE [kind |-> "ok", pos |-> rec.pos]
    IN /\ ret[1].res = want
       /\ Search(files, sst.table, key) = want
       /\ rec.held
            => /\ ~StrLess(key, sst.table.MinKey)
               /\ ~StrLess(sst.table.MaxKey, key)
               /\ BloomTest(sst.bf, sst.sum64, KeyToBytes(key))

\* A reopened table of three pairs, one of them a tombstone, was searched for
\* a key it does not hold that lies inside its key range and passes the
\* filter.
C31_Witness ==
  /\ ret[1].op = "search"
  /\ sst.made /\ sst.reopened
  /\ Len(sst.pairs) = 3
  /\ \E i \in DOMAIN sst.pairs : sst.pairs[i].Value.Size = 0
  /\ ~PairOf(sst.pairs, ret[1].key).held
  /\ ~StrLess(ret[1].key, sst.table.MinKey)
  /\ ~StrLess(sst.table.MaxKey, ret[1].key)
  /\ BloomTest(sst.bf, sst.sum64, KeyToBytes(ret[1].key))
  /\ ret[1].res.kind = "KeyNotFound"

\* C32: WAL operations are mutually exclusive.  Append, replay and clear
\* never execute concurrently on one WAL: at most one thread is inside one
\* of them, the file is always the concatenation of the whole records of the
\* appends made since the last clear (followed only by the part already
\* written of the one append in progress), and a replay reads exactly whole
\* records, never a half-appended or half-truncated log.
C32_WalMutualExclusion ==
  LET inside  == {t \in Threads : pc[t] \in WalCritical}
      writing == {t \in Threads : pc[t] = "walWrite"}
  IN /\ Cardinality(inside) <= 1
     /\ \A t \in inside : mu.wal = t
     /\ writing = {} => wal = WrittenBytes(appended)
     /\ \A t \in writing :
          wal = WrittenBytes(appended) \o SubSeq(call[t].buffer, 1, call[t].written)
     /\ \A t \in Threads :
          ret[t].op = "retrieve" => ret[t].read = WrittenBytes(ret[t].logged)

\* One record is in the log and thread 2 has replayed it; thread 1 is
\* part-way through the write of a second record (the key is written, the
\* value is not).
C32_Witness ==
  /\ pc[1] = "walWrite" /\ call[1].written = KeySize
  /\ call[1].written < Len(call[1].buffer)
  /\ ret[2].op = "retrieve" /\ Len(ret[2].logged) = 1
  /\ Len(ret[2].read) > KeySize
  /\ Len(appended) = 1

\* The bytes of the heap file a Position names.
BytesAt(heapFile, pos) ==
  [i \in 1..pos.Size |->
     IF pos.Offset + i <= Len(heapFile) THEN heapFile[pos.Offset + i] ELSE 0]

\* C33: value-heap writes are serialized.  When two threads call store
\* concurrently the two returned positions name disjoint byte ranges and
\* each position names exactly the bytes its own call wrote; a retrieve
\* racing with a store returns the complete bytes of the position it was
\* given.
C33_HeapWritesSerialized ==
  /\ (ret[1].op = "store" /\ ret[2].op = "store")
       => \/ ret[1].pos.Offset + ret[1].pos.Size <= ret[2].pos.Offset
          \/ ret[2].pos.Offset + ret[2].pos.Size <= ret[1].pos.Offset
  /\ \A t \in Threads :
       ret[t].op = "store" => BytesAt(heap, ret[t].pos) = ret[t].value
  /\ ret[2].op = "retrieve"
       => /\ ret[2].err = "ok"
          /\ ret[2].data = BytesAt(heap, ret[2].pos)

\* C34: background flusher lifecycle.  Every flush request placed on the
\* request channel is served by exactly one flush, executed under the index
\* manager's exclusive latch, and after close() has returned the background
\* flusher has terminated and no further flush runs.
C34_FlusherLifecycle ==
  /\ flusher.requests =
       flusher.flushes + (IF flusher.pc = "recv" THEN 0 ELSE 1)
  /\ flusher.pc \in FlushingAt => mu.latch = Flusher /\ mu.readers = {}
  /\ flusher.closed => flusher.pc = "done"

\* C37: no write is lost to a concurrent flush.  A set or delete that
\* inserts into the memtable while a flush is running (between the flush's
\* snapshot of the memtable items and its reset of the memtable) is, after
\* the flush has completed, in an SST or still in the memtable, and get
\* reflects it: after every completed flush, get of every key answers with
\* the Position of the last set or delete of the key.
C37_NoWriteLostToFlush ==
  (flusher.pc = "recv" /\ flusher.flushes > 0) =>
    \A k \in DOMAIN flusher.latest :
      LET want  == flusher.latest[k]
          inMem == SkipContains(skiplist, k) /\ SkipGet(skiplist, k) = want
          inSst == \E j \in DOMAIN sstables :
                     \E n \in DOMAIN files[sstables[j].Path].Pairs :
                       files[sstables[j].Path].Pairs[n] = KVPair(DiskKey(k), want)
      IN /\ inMem \/ inSst
         /\ ImGet(skiplist, files, sstables, k) =
              (IF want.Size = 0 THEN [kind |-> "KeyNotFound", pos |-> ZeroPosition]
               ELSE [kind |-> "ok", pos |-> want])

\* C35: flush trigger.  The threshold test is made on the memtable size
\* after the new pair has been inserted: no set returns leaving a memtable
\* whose size is >= memtable_size_threshold without a flush having been
\* requested or performed for it.
C35_FlushTriggerAfterInsert ==
  \A t \in Threads :
    (pc[t] = "idle" /\ ret[t].op = "set" /\ ret[t].err = "nil")
      => MemSize(memtable) < MemtableSizeThreshold

\* C36: scan and get agree.  In every reachable state a key is returned by
\* scan_prefix of the empty prefix if and only if get of the key returns a
\* value; in particular a key whose newest record is a tombstone in a raw
\* SST, while an older SST or level still holds a live record of it, is not
\* returned by scan_prefix.  Stated for the keys whose newest record is on
\* disk (the memtable holds no record of them), as a concurrent caller of
\* Keys and Get sees the tables.
C36_ScanAgreesWithGet ==
  up =>
    LET scanned == IndexKeys(St)
        items == MemItems(memtable)
    IN
    scanned.err = "nil" =>
      \A key \in ScanKeys \ {items[i].Key : i \in DOMAIN items} :
        (key \in scanned.keys) <=> (EngineGet(St, key).kind = "ok")

\* C38: concurrent reads are independent.  When two get calls search the
\* same SST at the same time, each holding only the read latch, every search
\* returns what it returns when run alone: the Seek and the Reads of one
\* nthKey are never interleaved with those of another so as to read a pair
\* at the wrong position.
C38_ConcurrentSearchesIndependent ==
  \A t \in Threads :
    ret[t].op = "search" =>
      ret[t].res = SearchBloom(files, sst.table, sst.bf, sst.sum64, ret[t].key)

\* C39: recovery is crash-safe.  When the process stops at any point of the
\* WAL replay of NewEngine (threshold flush inside Set included), a following
\* NewEngine gives for every key a get result that an uninterrupted run of
\* the stopped NewEngine could have given: no WAL entry is dropped before it
\* is in an SST.
C39_RecoveryCrashSafe ==
  [][(pc[1] = "replay" /\ pc'[1] = "idle" /\ ~up')
       => LET b == call[1].before IN
          {[k \in RecoverKeys |-> EngineGet(o, k)] : o \in NewEngine(wal', heap', files')}
            \subseteq
          {[k \in RecoverKeys |-> EngineGet(o, k)] : o \in NewEngine(b.wal, b.heap, b.files)}]_vars

\* C40: empty values are values.  After set(k, v) with a zero-length v has
\* returned nil, get(k) returns the empty byte string and not KeyNotFound,
\* k is among the keys scan_prefix returns, and get(k) returns the empty
\* byte string after a crash and the WAL replay of NewEngine too: a set of
\* an empty value is never treated as a delete.
C40_EmptyValuesAreValues ==
  (Idle /\ ret[1].op = "set" /\ ret[1].err = "nil"
        /\ model[ret[1].key] = Found(<<>>)) =>
    /\ EngineGet(St, ret[1].key) = Found(<<>>)
    /\ ret[1].key \in IndexKeys(St).keys
    /\ \A o \in NewEngine(wal, heap, files) : EngineGet(o, ret[1].key) = Found(<<>>)

=============================================================================
